---------------------------- MODULE Spec2Model ----------------------------
(***************************************************************************)
(* A model of the TOXICTIDE decision pipeline (kledx/toxictide):           *)
(*   - OrderBook            src/toxictide/market/orderbook.py              *)
(*   - TiltTracker          src/toxictide/risk/tilt.py                     *)
(*   - RiskGuardian         src/toxictide/risk/guardian.py                 *)
(*   - Orchestrator         src/toxictide/app.py                           *)
(*   - estimate_impact_bps  src/toxictide/features/impact.py               *)
(*   - SignalEngine         src/toxictide/strategy/signals.py              *)
(*   - ExecutionPlanner     src/toxictide/execution/planner.py             *)
(*   - TradeTape            src/toxictide/market/tape.py                   *)
(*   - EventBus             src/toxictide/bus.py                           *)
(*   - VolumeAnomalyDetector  src/toxictide/detectors/vad.py               *)
(*   - the trade buffer of BinanceMarketCollector                          *)
(*                          src/toxictide/market/collector_real.py         *)
(*                                                                         *)
(* Units.  Python floats are modelled by fixed-point integers:             *)
(*   time        seconds                                                   *)
(*   prices      1e-4 USD (1.0 is 10000, 2000.0 is 20000000)               *)
(*   coins       book level sizes in coins; order, fill and position sizes *)
(*               in 1e-2 coin                                              *)
(*   balance, fee, pnl   milli-USD                                         *)
(*   z-scores    whole numbers; detector scores in hundredths              *)
(*   impact      basis points                                              *)
(*   toxic, confidence   hundredths (0.6 is 60)                            *)
(*   multipliers thousandths (0.5 is 500)                                  *)
(*   notional    USD; RiskDecision.size_usd and order sizes in milli-USD   *)
(*               (base size in USD times multiplier in thousandths)        *)
(*   slippage    tenths of a basis point                                   *)
(***************************************************************************)
EXTENDS Integers, Sequences, FiniteSets, TLC

VARIABLES
    now,        \* wall clock, time.time()
    book,       \* OrderBook: _bids, _asks, _seq, _update_count
    bookCall,   \* the last OrderBook call: operation, arguments, outcome
    bookPrev,   \* the OrderBook as it was when the last call started
    guardian,   \* RiskGuardian: _last_book_update_ts, _cooldown_until, _tilt
    assessCall, \* the arguments of the last RiskGuardian.assess call
    decision,   \* the RiskDecision returned by the last assess call
    running,    \* SystemState.running
    paused,     \* SystemState.paused
    pc,         \* where the main thread is in Orchestrator.run / _tick
    feed,       \* the collector's stored snapshot (written by its own thread)
    history,    \* the price histories of RegimeClassifier and SignalEngine
    adapter,    \* PaperExecutionAdapter: balance, position size, entry price
    positions,  \* PositionManager._positions, in order of opening
    ledger,     \* Ledger: the lines written and whether the file is closed
    tick,       \* the local variables of the tick in progress
    stats,      \* bookkeeping: ticks started, completed, aborted, cancelled
    bus,        \* EventBus: the handlers subscribed to one topic, _event_count
    busCall,    \* the last EventBus.publish call: what ran and what it returned
    impactCall, \* the last estimate_impact_bps call: arguments and result
    signalCall, \* the last SignalEngine.generate call: arguments and result
    planCall,   \* the last ExecutionPlanner.plan call: arguments and result
    tape,       \* TradeTape: _trades (the timestamps), _total_trades
    tapeCall,   \* the last TradeTape call: operation, time, result
    vadCall,    \* the last VolumeAnomalyDetector.detect call: inputs, report
    tradeBuffer \* the collector's _trade_buffer (written by its own thread)

bookVars == <<book, bookCall, bookPrev>>
guardVars == <<guardian, assessCall, decision>>
orchVars == <<running, paused, pc, feed, history, adapter, positions, ledger,
              tick, stats>>
unitVars == <<bus, busCall, impactCall, signalCall, planCall, tape, tapeCall,
                   vadCall, tradeBuffer>>
vars == <<now, bookVars, guardVars, orchVars, unitVars>>

(***************************************************************************)
(* Helpers                                                                 *)
(***************************************************************************)
Min(a, b) == IF a <= b THEN a ELSE b
Max(a, b) == IF a >= b THEN a ELSE b

Abs(x) == IF x < 0 THEN -x ELSE x

\* a * b = q * c + r with 0 <= r < c, for a, b >= 0 and c > 0, computed by
\* halving b so that no intermediate value leaves 32 bits.
RECURSIVE MulDivRem(_, _, _)
MulDivRem(a, b, c) ==
    IF b = 0 THEN [ q |-> 0, r |-> 0 ]
    ELSE LET h == MulDivRem(a, b \div 2, c)
             odd == (b % 2 = 1)
             r2 == 2 * h.r + (IF odd THEN a % c ELSE 0)
         IN  [ q |-> 2 * h.q + (IF odd THEN a \div c ELSE 0) + r2 \div c,
               r |-> r2 % c ]

\* floor(a * b / c)
MulDiv(a, b, c) == MulDivRem(a, b, c).q

RECURSIVE SetMax(_)
SetMax(S) == LET x == CHOOSE y \in S : TRUE
             IN  IF S = {x} THEN x ELSE Max(x, SetMax(S \ {x}))

RECURSIVE SetMin(_)
SetMin(S) == LET x == CHOOSE y \in S : TRUE
             IN  IF S = {x} THEN x ELSE Min(x, SetMin(S \ {x}))

(***************************************************************************)
(* Reason codes, risk/reason_codes.py                                      *)
(***************************************************************************)
DATA_INCONSISTENT == "DATA_INCONSISTENT"
DATA_STALE == "DATA_STALE"
DAILY_LOSS_EXCEEDED == "DAILY_LOSS_EXCEEDED"
COOLDOWN_ACTIVE == "COOLDOWN_ACTIVE"
POSITION_LIMIT_EXCEEDED == "POSITION_LIMIT_EXCEEDED"
IMPACT_HARD_CAP_EXCEEDED == "IMPACT_HARD_CAP_EXCEEDED"
IMPACT_ENTRY_CAP_EXCEEDED == "IMPACT_ENTRY_CAP_EXCEEDED"
TOXIC_DANGER_LEVEL == "TOXIC_DANGER_LEVEL"
TOXIC_WARN_LEVEL == "TOXIC_WARN_LEVEL"
MARKET_STRESS_DANGER == "MARKET_STRESS_DANGER"
TRADE_FREQUENCY_EXCEEDED == "TRADE_FREQUENCY_EXCEEDED"
RISK_POSITION_SIZE_REDUCED == "RISK_POSITION_SIZE_REDUCED"
NO_SIGNAL == "NO_SIGNAL"
CONNECTION_LOST == "CONNECTION_LOST"
LEVERAGE_LIMIT_EXCEEDED == "LEVERAGE_LIMIT_EXCEEDED"
RISK_LEVERAGE_REDUCED == "RISK_LEVERAGE_REDUCED"

\* Every constant reason_codes.py defines.
ReasonCodes ==
    { DATA_INCONSISTENT, DATA_STALE, CONNECTION_LOST, DAILY_LOSS_EXCEEDED,
      COOLDOWN_ACTIVE, POSITION_LIMIT_EXCEEDED, LEVERAGE_LIMIT_EXCEEDED,
      IMPACT_HARD_CAP_EXCEEDED, IMPACT_ENTRY_CAP_EXCEEDED, TOXIC_DANGER_LEVEL,
      TOXIC_WARN_LEVEL, MARKET_STRESS_DANGER, TRADE_FREQUENCY_EXCEEDED,
      RISK_POSITION_SIZE_REDUCED, RISK_LEVERAGE_REDUCED, NO_SIGNAL }

(***************************************************************************)
(* Bounds of the model                                                     *)
(***************************************************************************)
MaxNow == 15          \* the clock stops advancing here
MaxTrades == 2        \* TiltTracker records at most this many trades
MaxBookCalls == 3     \* OrderBook calls per behaviour (_update_count cap)
MaxTicks == 6         \* ticks the run loop starts
MaxFeedUpdates == 2   \* snapshots the collector thread receives
MaxCommands == 2      \* inputs of the user: CLI commands and Ctrl-C

(***************************************************************************)
(* Program constants                                                       *)
(***************************************************************************)
DataStaleThreshold == 10    \* guardian.py:116 data_stale_threshold = 10.0
HourSec == 3600             \* tilt.py:77 cutoff = ts - 3600
DaySec == 86400             \* tilt.py:50 one calendar day of timestamps
BaseSizeCap == 1000         \* guardian.py:271 min(1000.0, ...)
SlippageCap == 150          \* guardian.py:298 min(impact_bps * 1.5, 15.0)
ImpactEntryMult == 500      \* guardian.py:276 size_multiplier *= 0.5
ToxicWarnMult == 700        \* guardian.py:281 size_multiplier *= 0.7
StressWarnMult == 500       \* guardian.py:286 size_multiplier *= 0.5
One == 1000                 \* guardian.py:273 size_multiplier = 1.0

\* Orchestrator.__init__, app.py:112-119: the default policy.
DefaultPolicy ==
    [ max_daily_loss_pct    |-> 1,
      max_position_notional |-> 3000,
      max_trades_per_hour   |-> 6,
      impact_hard_cap_bps   |-> 20,
      impact_entry_cap_bps  |-> 10,
      allowed_strategies    |-> {"trend_breakout", "range_mean_revert"} ]

\* The default configuration, config_loader.py:64-67 and 111.
Config ==
    [ vad |-> [ z_warn |-> 400, z_danger |-> 600,
                toxic_warn |-> 60, toxic_danger |-> 75 ],
      execution |-> [ slicing_threshold_bps |-> 10 ] ]

(***************************************************************************)
(* TiltTracker, risk/tilt.py                                               *)
(*   trades: <<[ts, pnl], ...>>; last_reset_date: a day number, -1 = None  *)
(***************************************************************************)
DateOf(ts) == ts \div DaySec

TiltInit == [ trades |-> << >>, daily_pnl |-> 0, last_reset_date |-> -1 ]

TiltRecordTrade(t, ts, pnl) ==
    LET current_date == DateOf(ts)
        reset == t.last_reset_date # current_date
        base  == IF reset THEN 0 ELSE t.daily_pnl
    IN  [ trades          |-> Append(t.trades, [ts |-> ts, pnl |-> pnl]),
          daily_pnl       |-> base + pnl,
          last_reset_date |-> current_date ]

TradesLastHour(t, ts) ==
    LET cutoff == ts - HourSec
    IN  Cardinality({ i \in 1..Len(t.trades) : t.trades[i].ts >= cutoff })

\* (daily_pnl / balance) * 100, in hundredths of a percent.
DailyPnlPct(t, balance) ==
    IF balance <= 0 THEN 0 ELSE (t.daily_pnl * 10000) \div balance

(***************************************************************************)
(* RiskGuardian, risk/guardian.py                                          *)
(*   cooldown_until: 0 stands for None (both are falsy at guardian.py:164) *)
(***************************************************************************)
GuardianInit(ts) ==
    [ last_book_update_ts |-> ts, cooldown_until |-> 0, tilt |-> TiltInit ]

NoCandidate == [ side |-> "none", entry_price |-> 0, stop_price |-> 0,
                 tp_price |-> 0, confidence |-> 0, strategy |-> "none",
                 ttl_sec |-> 0 ]

NoDecision == [ action |-> "none", size_usd |-> 0, max_slippage_bps |-> 0,
                reasons |-> << >>, facts |-> {} ]
NoFv == [ ts |-> 0, spread |-> 0, mid |-> 0, impact_buy_bps |-> 0,
          impact_sell_bps |-> 0, toxic |-> 0 ]
NoAssessCall ==
    [ made |-> FALSE, g |-> GuardianInit(0), candidate |-> NoCandidate,
      fv |-> NoFv, vad |-> [toxic |-> 0], stress |-> [level |-> "OK"],
      account |-> [balance |-> 0, position_notional |-> 0],
      policy |-> DefaultPolicy ]

\* Variant of a denial that keeps the base order size.
DenyKeepsSize(reasons, facts) ==
    [ action |-> "DENY", size_usd |-> BaseSizeCap * One, max_slippage_bps |-> 0,
      reasons |-> reasons, facts |-> facts ]

Deny(reasons, facts) ==
    [ action |-> "DENY", size_usd |-> 0, max_slippage_bps |-> 0,
      reasons |-> reasons, facts |-> facts ]

ImpactSide(candidate, fv) ==
    IF candidate.side = "long" THEN fv.impact_buy_bps ELSE fv.impact_sell_bps

\* guardian.py:269-307: no rule denied; size the order and collect reductions.
AllowBranch(candidate, fv, vad, stress, account, policy, facts) ==
    LET position_notional == account.position_notional
        base_size   == Min(BaseSizeCap, policy.max_position_notional - position_notional)
        impact_bps  == ImpactSide(candidate, fv)
        toxic       == vad.toxic
        m1 == IF impact_bps > policy.impact_entry_cap_bps
              THEN (One * ImpactEntryMult) \div One ELSE One
        r1 == IF impact_bps > policy.impact_entry_cap_bps
              THEN <<IMPACT_ENTRY_CAP_EXCEEDED>> ELSE << >>
        m2 == IF toxic >= Config.vad.toxic_warn
              THEN (m1 * ToxicWarnMult) \div One ELSE m1
        r2 == IF toxic >= Config.vad.toxic_warn
              THEN Append(r1, TOXIC_WARN_LEVEL) ELSE r1
        f2 == IF toxic >= Config.vad.toxic_warn
              THEN facts \cup {"toxic_warn"} ELSE facts
        m3 == IF stress.level = "WARN"
              THEN (m2 * StressWarnMult) \div One ELSE m2
        final_size == base_size * m3
    IN  [ action  |-> IF m3 < One THEN "ALLOW_WITH_REDUCTIONS" ELSE "ALLOW",
          size_usd |-> final_size,
          max_slippage_bps |-> Min(impact_bps * 15, SlippageCap),
          reasons |-> IF m3 < One THEN Append(r2, RISK_POSITION_SIZE_REDUCED) ELSE r2,
          facts   |-> IF m3 < One THEN f2 \cup {"original_size", "reduced_size"} ELSE f2 ]

\* Variant of the cascade: the cooldown rule is tested before the daily loss.
AssessCooldownFirst(g, candidate, fv, vad, stress, account, policy) ==
    LET ts == fv.ts
        daily_pnl_pct == DailyPnlPct(g.tilt, account.balance)
        f3 == {"daily_pnl_pct", "max_daily_loss_pct"}
        f8 == f3 \cup {"position_notional", "max_position_notional", "impact_bps",
                       "toxic", "hard_cap_bps", "entry_cap_bps", "toxic_danger",
                       "trades_last_hour", "max_trades_per_hour"}
    IN  IF candidate.side = "none" THEN Deny(<<NO_SIGNAL>>, {})
        ELSE IF ts - g.last_book_update_ts > DataStaleThreshold
             THEN Deny(<<DATA_STALE>>, {"stale_sec"})
        ELSE IF fv.spread <= 0 THEN Deny(<<DATA_INCONSISTENT>>, {"spread"})
        ELSE IF g.cooldown_until # 0 /\ ts < g.cooldown_until
             THEN Deny(<<COOLDOWN_ACTIVE>>, f3)
        ELSE IF daily_pnl_pct < -(policy.max_daily_loss_pct * 100)
             THEN Deny(<<DAILY_LOSS_EXCEEDED>>, f3)
        ELSE IF account.position_notional >= policy.max_position_notional
             THEN Deny(<<POSITION_LIMIT_EXCEEDED>>, f8)
        ELSE IF ImpactSide(candidate, fv) > policy.impact_hard_cap_bps
             THEN Deny(<<IMPACT_HARD_CAP_EXCEEDED>>, f8)
        ELSE IF vad.toxic >= Config.vad.toxic_danger
             THEN Deny(<<TOXIC_DANGER_LEVEL>>, f8)
        ELSE IF stress.level = "DANGER" THEN Deny(<<MARKET_STRESS_DANGER>>, f8)
        ELSE IF TradesLastHour(g.tilt, ts) >= policy.max_trades_per_hour
             THEN Deny(<<TRADE_FREQUENCY_EXCEEDED>>, f8)
        ELSE AllowBranch(candidate, fv, vad, stress, account, policy, f8)

\* guardian.py:89-267: the cascade of DENY rules, first hit returns.
Assess(g, candidate, fv, vad, stress, account, policy) ==
    LET ts == fv.ts
        daily_pnl_pct == DailyPnlPct(g.tilt, account.balance)
        f3 == {"daily_pnl_pct", "max_daily_loss_pct"}
        f5 == f3 \cup {"position_notional", "max_position_notional"}
        f6 == f5 \cup {"impact_bps", "toxic", "hard_cap_bps", "entry_cap_bps", "toxic_danger"}
        f8 == f6 \cup {"trades_last_hour", "max_trades_per_hour"}
    IN  IF candidate.side = "none" THEN Deny(<<NO_SIGNAL>>, {})
        ELSE IF ts - g.last_book_update_ts > DataStaleThreshold
             THEN Deny(<<DATA_STALE>>, {"stale_sec"})
        ELSE IF fv.spread <= 0 THEN Deny(<<DATA_INCONSISTENT>>, {"spread"})
        ELSE IF daily_pnl_pct < -(policy.max_daily_loss_pct * 100)
             THEN Deny(<<DAILY_LOSS_EXCEEDED>>, f3)
        ELSE IF g.cooldown_until # 0 /\ ts < g.cooldown_until
             THEN Deny(<<COOLDOWN_ACTIVE>>, f3 \cup {"cooldown_remaining_sec"})
        ELSE IF account.position_notional >= policy.max_position_notional
             THEN Deny(<<POSITION_LIMIT_EXCEEDED>>, f5)
        ELSE IF ImpactSide(candidate, fv) > policy.impact_hard_cap_bps
             THEN Deny(<<IMPACT_HARD_CAP_EXCEEDED>>, f6)
        ELSE IF vad.toxic >= Config.vad.toxic_danger
             THEN Deny(<<TOXIC_DANGER_LEVEL>>, f6)
        ELSE IF stress.level = "DANGER" THEN Deny(<<MARKET_STRESS_DANGER>>, f6)
        ELSE IF TradesLastHour(g.tilt, ts) >= policy.max_trades_per_hour
             THEN Deny(<<TRADE_FREQUENCY_EXCEEDED>>, f8)
        ELSE AllowBranch(candidate, fv, vad, stress, account, policy, f8)

\* guardian.py:309-320
TriggerCooldown(g, duration_sec) == [g EXCEPT !.cooldown_until = now + duration_sec]
UpdateBookTimestamp(g, ts) == [g EXCEPT !.last_book_update_ts = ts]
RecordTrade(g, ts, pnl) == [g EXCEPT !.tilt = TiltRecordTrade(g.tilt, ts, pnl)]

(***************************************************************************)
(* OrderBook, market/orderbook.py                                          *)
(*   _bids and _asks are dicts price -> size; a price that is not a key    *)
(*   has size 0 here.                                                      *)
(***************************************************************************)
Prices == {9995, 10005, 10010, 10015, 10020, 10025, 10030}
NoLevels == [p \in Prices |-> 0]

BookInit == [ bids |-> NoLevels, asks |-> NoLevels, seq |-> 0, update_count |-> 0 ]

Keys(side) == { p \in Prices : side[p] > 0 }

\* Variant of the consistency test that accepts equal best prices.
IsConsistentStrictOnly(b) ==
    IF Keys(b.bids) = {} \/ Keys(b.asks) = {} THEN TRUE
    ELSE LET best_bid == SetMax(Keys(b.bids))
             best_ask == SetMin(Keys(b.asks))
         IN  IF best_ask < best_bid THEN FALSE ELSE TRUE

IsConsistent(b) ==
    IF Keys(b.bids) = {} \/ Keys(b.asks) = {} THEN TRUE
    ELSE LET best_bid == SetMax(Keys(b.bids))
             best_ask == SetMin(Keys(b.asks))
         IN  IF best_ask <= best_bid THEN FALSE ELSE TRUE

\* for level in levels: d[level.price] = level.size, starting from a cleared dict
RECURSIVE LoadLevels(_, _)
LoadLevels(side, levels) ==
    IF levels = << >> THEN side
    ELSE LoadLevels([side EXCEPT ![Head(levels).price] = Head(levels).size],
                    Tail(levels))

\* apply_snapshot: the book it leaves and how the call ends.
ApplySnapshot(b, bids, asks, seq) ==
    LET nb == [ bids |-> LoadLevels(NoLevels, bids),
                asks |-> LoadLevels(NoLevels, asks),
                seq  |-> seq,
                update_count |-> b.update_count + 1 ]
    IN  IF ~IsConsistent(nb)
        THEN [ book |-> nb, outcome |-> "OrderbookInconsistentError" ]
        ELSE [ book |-> nb, outcome |-> "ok" ]

\* One change of a delta: size 0 pops the price, any other size stores it.
ApplyChange(b, change) ==
    IF change.side = "bid"
    THEN [b EXCEPT !.bids[change.price] = change.size]
    ELSE IF change.side = "ask"
    THEN [b EXCEPT !.asks[change.price] = change.size]
    ELSE b

RECURSIVE ApplyChanges(_, _)
ApplyChanges(b, changes) ==
    IF changes = << >> THEN b
    ELSE ApplyChanges(ApplyChange(b, Head(changes)), Tail(changes))

\* Variant of apply_delta that accepts any sequence number above the stored one.
ApplyDeltaGapAccepted(b, changes, seq) ==
    IF seq <= b.seq
    THEN [ book |-> b, outcome |-> "SequenceError" ]
    ELSE LET nb == [ ApplyChanges(b, changes) EXCEPT
                        !.seq = seq, !.update_count = b.update_count + 1 ]
         IN  IF ~IsConsistent(nb)
             THEN [ book |-> nb, outcome |-> "OrderbookInconsistentError" ]
             ELSE [ book |-> nb, outcome |-> "ok" ]

\* apply_delta: the book it leaves and how the call ends.
ApplyDelta(b, changes, seq) ==
    IF seq # b.seq + 1
    THEN [ book |-> b, outcome |-> "SequenceError" ]
    ELSE LET nb == [ ApplyChanges(b, changes) EXCEPT
                        !.seq = seq, !.update_count = b.update_count + 1 ]
         IN  IF ~IsConsistent(nb)
             THEN [ book |-> nb, outcome |-> "OrderbookInconsistentError" ]
             ELSE [ book |-> nb, outcome |-> "ok" ]

NoBookCall == [ n |-> 0, op |-> "none", bids |-> << >>, asks |-> << >>,
                changes |-> << >>, seq |-> 0, outcome |-> "none" ]

(***************************************************************************)
(* The decision pipeline of one tick: features, detectors, regime, signal  *)
(*   The statistics of the trade tape and the rolling z-scores are inputs: *)
(*   m = [toxic, vol_z, max_trade_z, oad_level].                           *)
(***************************************************************************)
PriceUnit == 10000       \* one USD, in the unit of prices (1e-4 USD)
ImpactSize == 100000     \* config_loader.py:43 impact_size_quote_usd 1000.0, cents
DepthLevels == 20        \* feature_engine.py:90 min(20, len(bids), len(asks))
EmptyImpact == 9999      \* impact.py:58, 85 and feature_engine.py:213: 9999.9
FlowToxic == 60          \* regime.py:187 toxic >= 0.6
FlowImpact == 20         \* regime.py:189 max_impact > 20
FlowVolZ == 4            \* regime.py:195 vol_z >= 4
RegimeMinHistory == 20   \* regime.py:121 len(self._price_history) < 20
SignalMinHistory == 5    \* signals.py:105 len(self._price_history) < 5
MeanRevertWindow == 30   \* signals.py:229 prices[-30:]
BreakoutWindow == 20     \* signals.py:149 prices[-20:]
MeanRevertTtl == 600     \* signals.py:256 ttl_sec=600
BreakoutTtl == 300       \* signals.py:175 ttl_sec=300

RECURSIVE SumSeq(_)
SumSeq(q) == IF q = << >> THEN 0 ELSE Head(q) + SumSeq(Tail(q))

LastN(q, n) == SubSeq(q, Max(1, Len(q) - n + 1), Len(q))
Range(q) == { q[i] : i \in DOMAIN q }

\* estimate_impact_bps, features/impact.py:16-101.  levels is a list of
\* [price, size] with prices in 1e-4 USD and sizes in coins; qty_usd and the
\* amounts of the loop are in cents; mid is in 1e-4 USD.  total_cost adds up
\* the USD consumed, so that total_cost / qty_usd is the number 1.0 whenever
\* the order is filled; it is compared with mid as a price in USD.
RECURSIVE ConsumeLevels(_, _, _)
ConsumeLevels(levels, remaining_usd, total_cost) ==
    IF levels = << >> \/ remaining_usd <= 0
    THEN [ remaining_usd |-> remaining_usd, total_cost |-> total_cost ]
    ELSE LET level == Head(levels)
             level_usd == (level.price * level.size) \div 100
             consumed_usd == Min(remaining_usd, level_usd)
         IN  ConsumeLevels(Tail(levels), remaining_usd - consumed_usd,
                           total_cost + consumed_usd)

EstimateImpactBps(levels, side, qty_usd, mid) ==
    IF qty_usd <= 0 THEN 0
    ELSE IF levels = << >> THEN EmptyImpact
    ELSE LET r == ConsumeLevels(levels, qty_usd, 0)
         IN  IF r.remaining_usd > 0 THEN EmptyImpact
             ELSE LET avg_price == (r.total_cost * PriceUnit) \div qty_usd
                      impact_bps == IF side = "buy"
                                    THEN ((avg_price - mid) * 10000) \div mid
                                    ELSE ((mid - avg_price) * 10000) \div mid
                  IN  Max(0, impact_bps)

NoImpactCall == [ made |-> FALSE, levels |-> << >>, side |-> "buy", qty_usd |-> 0,
                  mid |-> 0, ret |-> 0 ]

\* OrderBook.get_state, orderbook.py:164-185: a side as a list of levels,
\* asks by ascending and bids by descending price.
RECURSIVE AscLevels(_, _)
AscLevels(side, keys) ==
    IF keys = {} THEN << >>
    ELSE LET p == SetMin(keys)
         IN  <<[price |-> p, size |-> side[p]]>> \o AscLevels(side, keys \ {p})

RECURSIVE DescLevels(_, _)
DescLevels(side, keys) ==
    IF keys = {} THEN << >>
    ELSE LET p == SetMax(keys)
         IN  <<[price |-> p, size |-> side[p]]>> \o DescLevels(side, keys \ {p})

\* FeatureEngine.compute: mid, spread and the impact estimates from the book,
\* toxic from the tape (m).
Features(b, ts, m) ==
    IF Keys(b.bids) = {} \/ Keys(b.asks) = {}
    THEN [ ts |-> ts, spread |-> 0, mid |-> 0, impact_buy_bps |-> EmptyImpact,
           impact_sell_bps |-> EmptyImpact, toxic |-> 0 ]
    ELSE LET bids == DescLevels(b.bids, Keys(b.bids))
             asks == AscLevels(b.asks, Keys(b.asks))
             levels_to_use == Min(DepthLevels, Min(Len(bids), Len(asks)))
             bids_k == SubSeq(bids, 1, levels_to_use)
             asks_k == SubSeq(asks, 1, levels_to_use)
             mid == (bids[1].price + asks[1].price) \div 2
         IN  [ ts |-> ts, spread |-> asks[1].price - bids[1].price,
               mid |-> mid,
               impact_buy_bps |-> EstimateImpactBps(asks_k, "buy", ImpactSize, mid),
               impact_sell_bps |-> EstimateImpactBps(bids_k, "sell", ImpactSize, mid),
               toxic |-> m.toxic ]

\* VolumeAnomalyDetector.detect: score = 0.5 vol_z + 0.3 max_trade_z + 10 toxic.
VadDetect(fv, m) ==
    LET score == 50 * m.vol_z + 30 * m.max_trade_z + 10 * fv.toxic
    IN  [ level |-> IF score >= Config.vad.z_danger \/ fv.toxic >= Config.vad.toxic_danger
                    THEN "DANGER"
                    ELSE IF score >= Config.vad.z_warn \/ fv.toxic >= Config.vad.toxic_warn
                    THEN "WARN" ELSE "OK",
          toxic |-> fv.toxic, vol_z |-> m.vol_z ]

NoVadCall ==
    [ made |-> FALSE, fv |-> [toxic |-> 0], vol_z |-> 0, max_trade_z |-> 0,
      ret |-> [level |-> "OK", toxic |-> 0, vol_z |-> 0] ]

LevelPriority(l) == CASE l = "OK" -> 0 [] l = "WARN" -> 1 [] l = "DANGER" -> 2

ComputeStress(oad, vad) ==
    [ level |-> IF LevelPriority(vad.level) > LevelPriority(oad.level)
                THEN vad.level ELSE oad.level ]

ClassifyPriceRegime(h) ==
    IF Len(h) < RegimeMinHistory THEN "RANGE"
    ELSE LET ma_short == SumSeq(LastN(h, 10)) \div 10
             long == IF Len(h) >= 30 THEN LastN(h, 30) ELSE h
             ma_long == SumSeq(long) \div Len(long)
         IN  IF ma_short * 1000 > ma_long * 1002 THEN "TREND_UP"
             ELSE IF ma_short * 1000 < ma_long * 998 THEN "TREND_DOWN"
             ELSE "RANGE"

\* Variant of _classify_flow_regime that calls the flow TOXIC only from the
\* toxic_danger threshold on.
ClassifyFlowRegimeFromDanger(fv, oad, vad) ==
    LET max_impact == Max(fv.impact_buy_bps, fv.impact_sell_bps)
    IN  IF vad.toxic >= Config.vad.toxic_danger \/ oad.level = "DANGER"
           \/ max_impact > FlowImpact
        THEN "TOXIC"
        ELSE IF vad.vol_z >= FlowVolZ \/ oad.level = "WARN" THEN "ACTIVE"
        ELSE "CALM"

ClassifyFlowRegime(fv, oad, vad) ==
    LET max_impact == Max(fv.impact_buy_bps, fv.impact_sell_bps)
    IN  IF vad.toxic >= FlowToxic \/ oad.level = "DANGER" \/ max_impact > FlowImpact
        THEN "TOXIC"
        ELSE IF vad.vol_z >= FlowVolZ \/ oad.level = "WARN" THEN "ACTIVE"
        ELSE "CALM"

\* SignalEngine._trend_breakout on the history that already holds fv.mid.
TrendBreakout(h, fv, regime) ==
    IF regime.price_regime \notin {"TREND_UP", "TREND_DOWN"} THEN NoCandidate
    ELSE IF regime.flow_regime # "ACTIVE" THEN NoCandidate
    ELSE LET recent_high == SetMax(Range(LastN(h, BreakoutWindow)))
             recent_low == SetMin(Range(LastN(h, BreakoutWindow)))
             current_price == fv.mid
         IN  IF current_price * 1000 > recent_high * 1001
             THEN [ side |-> "long", entry_price |-> current_price,
                    stop_price |-> (current_price * 995) \div 1000,
                    tp_price |-> (current_price * 101) \div 100,
                    confidence |-> 70, strategy |-> "trend_breakout",
                    ttl_sec |-> BreakoutTtl ]
             ELSE IF current_price * 1000 < recent_low * 999
             THEN [ side |-> "short", entry_price |-> current_price,
                    stop_price |-> (current_price * 1005) \div 1000,
                    tp_price |-> (current_price * 99) \div 100,
                    confidence |-> 70, strategy |-> "trend_breakout",
                    ttl_sec |-> BreakoutTtl ]
             ELSE NoCandidate

\* SignalEngine._range_mean_revert.  With w the last 30 prices, n = len(w),
\* d[i] = w[i] - mid, D = sum d and V = n sum d^2 - D^2 (n^2 times the
\* population variance):  mid < mean - 1.5 std  iff  D > 0 and 4 D^2 > 9 V,
\* mid > mean + 1.5 std  iff  D < 0 and 4 D^2 > 9 V.
RangeMeanRevert(h, fv, regime) ==
    IF regime.price_regime # "RANGE" THEN NoCandidate
    ELSE IF regime.flow_regime # "CALM" THEN NoCandidate
    ELSE LET w == LastN(h, MeanRevertWindow)
             n == Len(w)
             current_price == fv.mid
             d == [i \in DOMAIN w |-> w[i] - current_price]
             D == SumSeq(d)
             V == n * SumSeq([i \in DOMAIN w |-> d[i] * d[i]]) - D * D
             mean_price == SumSeq(w) \div n
         IN  IF D > 0 /\ 4 * D * D > 9 * V
             THEN [ side |-> "long", entry_price |-> current_price,
                    stop_price |-> (current_price * 998) \div 1000,
                    tp_price |-> mean_price,
                    confidence |-> 60, strategy |-> "range_mean_revert",
                    ttl_sec |-> MeanRevertTtl ]
             ELSE IF D < 0 /\ 4 * D * D > 9 * V
             THEN [ side |-> "short", entry_price |-> current_price,
                    stop_price |-> (current_price * 1002) \div 1000,
                    tp_price |-> mean_price,
                    confidence |-> 60, strategy |-> "range_mean_revert",
                    ttl_sec |-> MeanRevertTtl ]
             ELSE NoCandidate

\* Variant of generate that tries both strategies whatever the whitelist names.
GenerateIgnoresWhitelist(h, fv, regime, policy) ==
    IF regime.flow_regime = "TOXIC" THEN NoCandidate
    ELSE IF policy.allowed_strategies = {} THEN NoCandidate
    ELSE IF Len(h) < SignalMinHistory THEN NoCandidate
    ELSE LET c1 == TrendBreakout(h, fv, regime)
             c2 == RangeMeanRevert(h, fv, regime)
         IN  IF c1 # NoCandidate THEN c1 ELSE c2

\* SignalEngine.generate after the append of (ts, fv.mid) to the history h.
Generate(h, fv, regime, policy) ==
    IF regime.flow_regime = "TOXIC" THEN NoCandidate
    ELSE IF policy.allowed_strategies = {} THEN NoCandidate
    ELSE IF Len(h) < SignalMinHistory THEN NoCandidate
    ELSE LET c1 == IF "trend_breakout" \in policy.allowed_strategies
                   THEN TrendBreakout(h, fv, regime) ELSE NoCandidate
             c2 == IF "range_mean_revert" \in policy.allowed_strategies
                   THEN RangeMeanRevert(h, fv, regime) ELSE NoCandidate
         IN  IF c1 # NoCandidate THEN c1 ELSE c2

NoSignalCall == [ made |-> FALSE, before |-> << >>, mid |-> 0,
                  price_regime |-> "RANGE", flow_regime |-> "CALM",
                  allowed_strategies |-> {}, ret |-> NoCandidate ]

(***************************************************************************)
(* Planning and execution: ExecutionPlanner, PaperExecutionAdapter,        *)
(* PositionManager, PositionMonitor                                        *)
(*   An order is [type, side, price, size_usd]; price 0: no "price" key.   *)
(***************************************************************************)
NumSlices == 5             \* planner.py:112 num_slices = 5
TakerToxic == 60           \* planner.py:141 toxic >= 0.6
DefaultBasePrice == 20000000  \* adapter_paper.py:125 order.get("price", 2000.0)
MarketFee == 5             \* adapter_paper.py:140 fee_rate = 0.0005
LimitFee == 2              \* adapter_paper.py:142 fee_rate = 0.0002
MaxHoldTime == 3600        \* app.py:107 max_hold_time_sec=3600


\* Variant of plan that looks at the impact before the risk action.
PlanSlicesBeforeDeny(risk, candidate, fv, vad) ==
    IF candidate # NoCandidate
       /\ ImpactSide(candidate, fv) >= Config.execution.slicing_threshold_bps
    THEN [ mode |-> "slicing",
           orders |-> [ i \in 1..NumSlices |->
                          [ type |-> "limit", side |-> candidate.side,
                            price |-> candidate.entry_price,
                            size_usd |-> risk.size_usd \div NumSlices ] ],
           reasons |-> <<"HIGH_IMPACT_SLICING">> ]
    ELSE IF risk.action = "DENY"
    THEN [ mode |-> "reduce_only", orders |-> << >>, reasons |-> risk.reasons ]
    ELSE IF candidate = NoCandidate
    THEN [ mode |-> "reduce_only", orders |-> << >>, reasons |-> <<NO_SIGNAL>> ]
    ELSE IF vad.toxic >= TakerToxic
    THEN [ mode |-> "taker",
           orders |-> << [ type |-> "market", side |-> candidate.side,
                           price |-> 0, size_usd |-> risk.size_usd ] >>,
           reasons |-> <<"TOXIC_TAKER_ONLY">> ]
    ELSE [ mode |-> "maker",
           orders |-> << [ type |-> "limit", side |-> candidate.side,
                           price |-> candidate.entry_price,
                           size_usd |-> risk.size_usd ] >>,
           reasons |-> <<"NORMAL_MAKER">> ]

\* Variant of plan that cuts the size into one part more than it sends.
PlanSlicesTooSmall(risk, candidate, fv, vad) ==
    IF risk.action = "DENY"
    THEN [ mode |-> "reduce_only", orders |-> << >>, reasons |-> risk.reasons ]
    ELSE IF candidate = NoCandidate
    THEN [ mode |-> "reduce_only", orders |-> << >>, reasons |-> <<NO_SIGNAL>> ]
    ELSE IF ImpactSide(candidate, fv) >= Config.execution.slicing_threshold_bps
    THEN [ mode |-> "slicing",
           orders |-> [ i \in 1..NumSlices |->
                          [ type |-> "limit", side |-> candidate.side,
                            price |-> candidate.entry_price,
                            size_usd |-> risk.size_usd \div (NumSlices + 1) ] ],
           reasons |-> <<"HIGH_IMPACT_SLICING">> ]
    ELSE IF vad.toxic >= TakerToxic
    THEN [ mode |-> "taker",
           orders |-> << [ type |-> "market", side |-> candidate.side,
                           price |-> 0, size_usd |-> risk.size_usd ] >>,
           reasons |-> <<"TOXIC_TAKER_ONLY">> ]
    ELSE [ mode |-> "maker",
           orders |-> << [ type |-> "limit", side |-> candidate.side,
                           price |-> candidate.entry_price,
                           size_usd |-> risk.size_usd ] >>,
           reasons |-> <<"NORMAL_MAKER">> ]

\* ExecutionPlanner.plan
Plan(risk, candidate, fv, vad) ==
    IF risk.action = "DENY"
    THEN [ mode |-> "reduce_only", orders |-> << >>, reasons |-> risk.reasons ]
    ELSE IF candidate = NoCandidate
    THEN [ mode |-> "reduce_only", orders |-> << >>, reasons |-> <<NO_SIGNAL>> ]
    ELSE IF ImpactSide(candidate, fv) >= Config.execution.slicing_threshold_bps
    THEN [ mode |-> "slicing",
           orders |-> [ i \in 1..NumSlices |->
                          [ type |-> "limit", side |-> candidate.side,
                            price |-> candidate.entry_price,
                            size_usd |-> risk.size_usd \div NumSlices ] ],
           reasons |-> <<"HIGH_IMPACT_SLICING">> ]
    ELSE IF vad.toxic >= TakerToxic
    THEN [ mode |-> "taker",
           orders |-> << [ type |-> "market", side |-> candidate.side,
                           price |-> 0, size_usd |-> risk.size_usd ] >>,
           reasons |-> <<"TOXIC_TAKER_ONLY">> ]
    ELSE [ mode |-> "maker",
           orders |-> << [ type |-> "limit", side |-> candidate.side,
                           price |-> candidate.entry_price,
                           size_usd |-> risk.size_usd ] >>,
           reasons |-> <<"NORMAL_MAKER">> ]

NoPlanCall == [ made |-> FALSE, risk |-> NoDecision, candidate |-> NoCandidate,
                fv |-> NoFv, vad |-> [toxic |-> 0],
                plan |-> [ mode |-> "none", orders |-> << >>, reasons |-> << >> ] ]

\* PaperExecutionAdapter.get_account_state
GetAccountState(a) ==
    [ balance |-> a.balance,
      position_size |-> a.position_size,
      position_notional |->
          MulDiv(Abs(a.position_size), a.position_entry_price, 1000000) ]

\* PaperExecutionAdapter._execute_single_order with slippage slip (bps).
ExecuteSingleOrder(a, order, slip) ==
    LET base_price == IF order.price = 0 THEN DefaultBasePrice ELSE order.price
        fill_price == IF order.side = "long"
                      THEN base_price + (base_price * slip) \div 10000
                      ELSE base_price + (base_price * (0 - slip)) \div 10000
        size_coins == (order.size_usd * 1000) \div fill_price
        fee_rate   == IF order.type = "market" THEN MarketFee ELSE LimitFee
        fee        == (order.size_usd * fee_rate) \div 10000
    IN  [ fill |-> [ price |-> fill_price, size |-> size_coins, fee |-> fee,
                     side |-> IF order.side = "long" THEN "buy" ELSE "sell" ],
          adapter |-> [ balance |-> a.balance - fee,
                        position_size |-> IF order.side = "long"
                                          THEN a.position_size + size_coins
                                          ELSE a.position_size - size_coins,
                        position_entry_price |-> fill_price ] ]

\* PaperExecutionAdapter.execute: the orders in turn; order number fail (0:
\* none) cannot save the account state and raises after it changed the account.
RECURSIVE Execute(_, _, _, _)
Execute(a, orders, slips, fail) ==
    IF orders = << >> THEN [ adapter |-> a, fills |-> << >>, outcome |-> "ok" ]
    ELSE LET r == ExecuteSingleOrder(a, Head(orders), Head(slips))
         IN  IF fail = 1
             THEN [ adapter |-> r.adapter, fills |-> << >>,
                    outcome |-> "ExecutionException" ]
             ELSE LET rest == Execute(r.adapter, Tail(orders), Tail(slips), fail - 1)
                  IN  [ adapter |-> rest.adapter,
                        fills |-> <<r.fill>> \o rest.fills,
                        outcome |-> rest.outcome ]

\* PositionManager.open_position
OpenPosition(candidate, fills, size_usd, ts) ==
    LET total_cost == SumSeq([ i \in DOMAIN fills |-> fills[i].price * fills[i].size ])
        total_size == SumSeq([ i \in DOMAIN fills |-> fills[i].size ])
        avg_price  == IF total_size > 0 THEN total_cost \div total_size
                      ELSE candidate.entry_price
    IN  [ side |-> candidate.side, entry_price |-> avg_price, entry_time |-> ts,
          size |-> total_size, size_usd |-> size_usd,
          stop_price |-> candidate.stop_price, tp_price |-> candidate.tp_price,
          strategy |-> candidate.strategy, is_open |-> TRUE, close_price |-> 0,
          close_time |-> 0, close_reason |-> "none", pnl |-> 0 ]

\* Position.unrealized_pnl; a pnl of None reads as 0.0 (self.pnl or 0.0).
UnrealizedPnl(p, current_price) ==
    IF ~p.is_open THEN p.pnl
    ELSE IF p.side = "long" THEN ((current_price - p.entry_price) * p.size) \div 1000
    ELSE ((p.entry_price - current_price) * p.size) \div 1000

\* Position.close: the flag is cleared before the pnl is computed.
ClosePosition(p, close_price, close_time, reason) ==
    LET q == [p EXCEPT !.is_open = FALSE, !.close_price = close_price,
                       !.close_time = close_time, !.close_reason = reason]
    IN  [q EXCEPT !.pnl = UnrealizedPnl(q, close_price)]

\* PositionMonitor.check_positions: what to close, in order, and why.
CloseReason(p, current_price, current_time) ==
    IF (p.side = "long" /\ current_price <= p.stop_price)
       \/ (p.side # "long" /\ current_price >= p.stop_price) THEN "stop_loss"
    ELSE IF p.tp_price # 0 /\ ( (p.side = "long" /\ current_price >= p.tp_price)
                                \/ (p.side # "long" /\ current_price <= p.tp_price) )
    THEN "take_profit"
    ELSE IF current_time - p.entry_time >= MaxHoldTime THEN "ttl_expired"
    ELSE "none"

RECURSIVE DueFrom(_, _, _, _)
DueFrom(ps, i, current_price, current_time) ==
    IF i > Len(ps) THEN << >>
    ELSE (IF ps[i].is_open /\ CloseReason(ps[i], current_price, current_time) # "none"
          THEN <<i>> ELSE << >>)
         \o DueFrom(ps, i + 1, current_price, current_time)

CheckPositions(ps, current_price, current_time) ==
    DueFrom(ps, 1, current_price, current_time)

(***************************************************************************)
(* TradeTape, market/tape.py                                               *)
(*   trades: the deque self._trades, a trade being its timestamp           *)
(***************************************************************************)
WindowSec == 300    \* app.py:80 TradeTape(window_sec=300)

TapeInit == [ trades |-> << >>, total_trades |-> 0 ]

\* _cleanup: while self._trades and self._trades[0].ts < cutoff_ts: popleft()
RECURSIVE Cleanup(_, _)
Cleanup(t, current_ts) ==
    LET cutoff_ts == current_ts - WindowSec
    IN  IF t.trades # << >> /\ Head(t.trades) < cutoff_ts
        THEN Cleanup([t EXCEPT !.trades = Tail(@)], current_ts)
        ELSE t

\* add at time current_ts
TapeAdd(t, trade, current_ts) ==
    Cleanup([ trades |-> Append(t.trades, trade),
              total_trades |-> t.total_trades + 1 ], current_ts)

\* add_batch at time current_ts: every trade is appended, then one _cleanup
TapeAddBatch(t, trades, current_ts) ==
    Cleanup([ trades |-> t.trades \o trades,
              total_trades |-> t.total_trades + Len(trades) ], current_ts)

\* recent(sec=None) and len at time current_ts: _cleanup, then the deque
TapeRecent(t, current_ts) ==
    LET c == Cleanup(t, current_ts)
    IN  [ tape |-> c, ret |-> c.trades ]

TapeLen(t, current_ts) ==
    LET c == Cleanup(t, current_ts)
    IN  [ tape |-> c, ret |-> Len(c.trades) ]

NoTapeCall == [ op |-> "none", now |-> 0, trades |-> << >>, recent |-> << >>,
                len |-> 0 ]

(***************************************************************************)
(* EventBus, bus.py:56-157, for one topic                                  *)
(*   subscribers: the list self._subscribers[topic], in subscription order *)
(*   A handler is an identifier; what it does when called is an input of   *)
(*   publish: return, raise an Exception, or unsubscribe a handler of the  *)
(*   same topic and return.                                                *)
(***************************************************************************)
Handlers == {"h1", "h2", "h3"}

BusInit == [ subscribers |-> << >>, event_count |-> 0 ]

\* subscribe: self._subscribers[topic].append(handler)
BusSubscribe(b, h) == [b EXCEPT !.subscribers = Append(@, h)]

\* list.remove: the first occurrence goes, the rest moves up.
RemoveFirst(q, h) ==
    LET i == CHOOSE j \in DOMAIN q : q[j] = h /\ \A k \in 1..(j - 1) : q[k] # h
    IN  SubSeq(q, 1, i - 1) \o SubSeq(q, i + 1, Len(q))

\* unsubscribe: removes the handler if it is subscribed.
BusUnsubscribe(b, h) ==
    IF \E j \in DOMAIN b.subscribers : b.subscribers[j] = h
    THEN [b EXCEPT !.subscribers = RemoveFirst(@, h)]
    ELSE b

\* publish, bus.py:136-148: for handler in handlers, over the list itself
\* (handlers is self._subscribers[topic], not a copy); i is the position
\* the iterator has reached, read against the list as it is by then.
RECURSIVE PublishLoop(_, _, _, _, _)
PublishLoop(b, i, does, invoked, success_count) ==
    IF i > Len(b.subscribers)
    THEN [ bus |-> b, invoked |-> invoked, ret |-> success_count,
           outcome |-> "returned" ]
    ELSE LET handler == b.subscribers[i]
             d == does[handler]
         IN  IF d.kind = "raise"
             THEN PublishLoop(b, i + 1, does, Append(invoked, handler),
                              success_count)
             ELSE IF d.kind = "unsubscribe"
             THEN PublishLoop(BusUnsubscribe(b, d.target), i + 1, does,
                              Append(invoked, handler), success_count + 1)
             ELSE PublishLoop(b, i + 1, does, Append(invoked, handler),
                              success_count + 1)

\* publish, bus.py:117-157
Publish(b, does) ==
    IF b.subscribers = << >>
    THEN [ bus |-> b, invoked |-> << >>, ret |-> 0, outcome |-> "returned" ]
    ELSE PublishLoop([b EXCEPT !.event_count = @ + 1], 1, does, << >>, 0)

NoBusCall == [ made |-> FALSE, before |-> << >>,
               does |-> [h \in Handlers |-> [kind |-> "return", target |-> h]],
               invoked |-> << >>, ret |-> 0, outcome |-> "none" ]

UnitInit ==
    /\ bus = BusInit
    /\ busCall = NoBusCall
    /\ impactCall = NoImpactCall
    /\ signalCall = NoSignalCall
    /\ planCall = NoPlanCall
    /\ tape = TapeInit
    /\ tapeCall = NoTapeCall
    /\ vadCall = NoVadCall
    /\ tradeBuffer = << >>

(***************************************************************************)
(* Orchestrator state after __init__, app.py:57-121                        *)
(***************************************************************************)
InitialBalance == 10000000   \* adapter_paper.py:45 initial_balance, milli-USD

NoFeed == [ has |-> FALSE, bids |-> << >>, asks |-> << >>, seq |-> 0, ts |-> 0 ]
NoPlan == [ mode |-> "none", orders |-> << >>, reasons |-> << >> ]
NoTick == [ ts |-> 0, snap_ts |-> 0, inconsistent |-> FALSE, fv |-> NoFv,
            vad |-> [level |-> "OK", toxic |-> 0, vol_z |-> 0],
            oad |-> [level |-> "OK"], stress |-> [level |-> "OK"],
            flow_regime |-> "none", candidate |-> NoCandidate, plan |-> NoPlan, fills |-> << >>,
            closes |-> << >>, action |-> "none", appended |-> 0, end |-> "none" ]

OrchInit ==
    /\ running = TRUE
    /\ paused = FALSE
    /\ pc = "loop"
    /\ feed = NoFeed
    /\ history = [ regime |-> << >>, signal |-> << >> ]
    /\ adapter = [ balance |-> InitialBalance, position_size |-> 0,
                   position_entry_price |-> 0 ]
    /\ positions = << >>
    /\ ledger = [ records |-> << >>, closed |-> FALSE ]
    /\ tick = NoTick
    /\ stats = [ started |-> 0, completed |-> 0, aborted |-> 0, cancelled |-> 0,
                 commands |-> 0, appended_after_close |-> FALSE,
                 kbd_at |-> "none" ]

(***************************************************************************)
(* Orchestrator.run and Orchestrator._tick, app.py:123-360                 *)
(*   pc: loop (while running), iter (if not paused), the tick stages       *)
(*   fetch, decide, execute, monitor, ledger1, ledger2, then sleep;        *)
(*   finally / finally_raise (the finally clause of run), done, crashed.   *)
(***************************************************************************)
HistoryMax == 100     \* regime.py:60, signals.py:65 deque(maxlen=100)

TickPcs == {"fetch", "decide", "execute", "monitor", "ledger1", "ledger2"}
TryPcs == {"loop", "iter", "sleep"} \cup TickPcs

\* Variant of _tick without its try/except.
TickHandlerAbsent(kind) == "propagates"

\* _tick, app.py:350: except Exception catches all but KeyboardInterrupt.
TickHandler(kind) == IF kind # "KeyboardInterrupt" THEN "caught" ELSE "propagates"

\* run, app.py:139-144: except KeyboardInterrupt stops; except Exception re-raises.
RunHandler(kind) == IF kind = "KeyboardInterrupt" THEN "stop" ELSE "reraise"

\* Where an exception raised inside _tick takes the main thread.
RaisedInTick(kind) ==
    IF TickHandler(kind) = "caught"
    THEN [ pc |-> "sleep", running |-> running, end |-> "exception" ]
    ELSE IF RunHandler(kind) = "stop"
    THEN [ pc |-> "finally", running |-> FALSE, end |-> "cancelled" ]
    ELSE [ pc |-> "finally_raise", running |-> running, end |-> "escaped" ]

\* What is kept of a tick once it has ended.
TickSummary(t, end) ==
    [ NoTick EXCEPT !.ts = t.ts, !.snap_ts = t.snap_ts,
                    !.inconsistent = t.inconsistent, !.action = t.action,
                    !.appended = t.appended, !.end = end ]

\* Ledger.append: a write to a closed file raises inside the try and is dropped.
LedgerAppend(l, record) ==
    IF l.closed THEN l ELSE [l EXCEPT !.records = Append(@, record)]

LedgerRecord ==
    [ ts |-> tick.ts, action |-> decision.action, reasons |-> decision.reasons,
      fills |-> tick.fills ]

RECURSIVE RecordTrades(_, _, _)
RecordTrades(g, ts, n) ==
    IF n = 0 THEN g ELSE RecordTrades(RecordTrade(g, ts, 0), ts, n - 1)

\* app.py:249-288: close the due positions in turn; an execute that raises
\* ends the loop with the earlier closes done.  closes lists what each pass
\* of the loop did: the position, close_fills, the closed position, the pnl
\* handed to record_trade and the adapter's position size before and after.
RECURSIVE CloseDue(_, _, _, _, _, _, _, _)
CloseDue(a, ps, g, due, slips, fail, current_price, ts) ==
    IF due = << >> THEN [ adapter |-> a, positions |-> ps, guardian |-> g,
                          closes |-> << >>, outcome |-> "ok" ]
    ELSE LET id == Head(due)
             position == ps[id]
             order == [ type |-> "market",
                        side |-> IF position.side = "long" THEN "sell" ELSE "buy",
                        price |-> 0, size_usd |-> position.size_usd ]
             r == Execute(a, <<order>>, <<Head(slips)>>, fail)
         IN  IF r.outcome # "ok"
             THEN [ adapter |-> r.adapter, positions |-> ps, guardian |-> g,
                    closes |-> << >>, outcome |-> r.outcome ]
             ELSE LET closed == ClosePosition(position, current_price, ts,
                                              CloseReason(position, current_price, ts))
                      rest == CloseDue(r.adapter, [ps EXCEPT ![id] = closed],
                                       RecordTrade(g, ts, closed.pnl), Tail(due),
                                       Tail(slips), fail - 1, current_price, ts)
                      done == [ position |-> position, closed |-> closed,
                                close_fills |-> r.fills,
                                recorded_pnl |-> closed.pnl,
                                size_before |-> a.position_size,
                                size_after |-> r.adapter.position_size ]
                  IN  [rest EXCEPT !.closes = <<done>> \o @]

\* The market inputs of a tick and the nondeterminism of the paper adapter.
MarketArgs ==
    { [ toxic |-> 10, vol_z |-> 0, max_trade_z |-> 0, oad_level |-> "OK" ],
      [ toxic |-> 50, vol_z |-> 0, max_trade_z |-> 0, oad_level |-> "OK" ],
      [ toxic |-> 50, vol_z |-> 0, max_trade_z |-> 4, oad_level |-> "OK" ],
      [ toxic |-> 60, vol_z |-> 0, max_trade_z |-> 0, oad_level |-> "OK" ] }
SlipArgs == {1, 5}
FailArgs == {0, 1}

\* The snapshots the collector can hold: two consistent books of an
\* instrument priced near one USD, around mids 1.0000 and 1.0015 with 2000
\* coins on each side, and one crossed book (bid 1.0005, ask 0.9995).  With
\* estimate_impact_bps as it is, a mid outside [0.998, 1.002] USD makes the
\* flow regime TOXIC on every tick.
SnapshotAt(mid) ==
    [ bids |-> << [price |-> mid - 5, size |-> 2000] >>,
      asks |-> << [price |-> mid + 5, size |-> 2000] >> ]
CrossedSnapshot ==
    [ bids |-> << [price |-> 10005, size |-> 2000] >>,
      asks |-> << [price |-> 9995, size |-> 2000] >> ]
FeedArgs == { SnapshotAt(10000), SnapshotAt(10015), CrossedSnapshot }

Alive == pc \notin {"done", "crashed"}

\* while self._state.running:
Loop ==
    /\ pc = "loop"
    /\ pc' = IF running THEN "iter" ELSE "finally"
    /\ UNCHANGED <<now, bookVars, guardVars, running, paused, feed, history,
                   adapter, positions, ledger, tick, stats>>
    /\ UNCHANGED unitVars

\* Variant of the loop body that calls _tick whatever the paused flag says.
IterIgnoresPaused ==
    /\ pc = "iter"
    /\ stats.started < MaxTicks
    /\ pc' = "fetch"
    /\ tick' = [NoTick EXCEPT !.ts = now, !.end = "running"]
    /\ stats' = [stats EXCEPT !.started = @ + 1]
    /\ UNCHANGED <<now, bookVars, guardVars, running, paused, feed, history,
                   adapter, positions, ledger>>
    /\ UNCHANGED unitVars

\* if not self._state.paused: self._tick()  ...  ts = time.time()
Iter ==
    /\ pc = "iter"
    /\ IF paused
       THEN /\ pc' = "sleep"
            /\ UNCHANGED <<tick, stats>>
       ELSE /\ stats.started < MaxTicks
            /\ pc' = "fetch"
            /\ tick' = [NoTick EXCEPT !.ts = now, !.end = "running"]
            /\ stats' = [stats EXCEPT !.started = @ + 1]
    /\ UNCHANGED <<now, bookVars, guardVars, running, paused, feed, history,
                   adapter, positions, ledger>>
    /\ UNCHANGED unitVars

\* app.py:157-175: snapshot from the collector, apply_snapshot,
\* update_book_timestamp(ts).
Fetch ==
    /\ pc = "fetch"
    /\ IF ~feed.has
       THEN /\ pc' = "sleep"
            /\ tick' = TickSummary(tick, "no_data")
            /\ UNCHANGED <<bookVars, guardian, running, stats>>
       ELSE LET r == ApplySnapshot(book, feed.bids, feed.asks, feed.seq)
                t == [tick EXCEPT !.snap_ts = feed.ts,
                                  !.inconsistent = (r.outcome # "ok")]
            IN  /\ book' = r.book
                /\ bookPrev' = book
                /\ bookCall' = [ n |-> stats.started, op |-> "apply_snapshot",
                                 bids |-> feed.bids, asks |-> feed.asks,
                                 changes |-> << >>, seq |-> feed.seq,
                                 outcome |-> r.outcome ]
                /\ IF r.outcome = "ok"
                   THEN /\ guardian' = UpdateBookTimestamp(guardian, tick.ts)
                        /\ pc' = "decide"
                        /\ tick' = t
                        /\ UNCHANGED <<running, stats>>
                   ELSE LET x == RaisedInTick(r.outcome)
                        IN  /\ pc' = x.pc
                            /\ running' = x.running
                            /\ tick' = TickSummary(t, x.end)
                            /\ stats' = [stats EXCEPT !.aborted = @ + 1]
                            /\ UNCHANGED guardian
    /\ UNCHANGED <<now, assessCall, decision, paused, feed, history, adapter,
                   positions, ledger>>
    /\ UNCHANGED unitVars

\* app.py:179-218: features, detectors, regime, signal, account, assess, plan.
DecideOn(inputs) ==
    /\ pc = "decide"
    /\ \E m \in inputs :
          LET fv == Features(book, tick.ts, m)
              oad == [level |-> m.oad_level]
              vad == VadDetect(fv, m)
              stress == ComputeStress(oad, vad)
              rh == LastN(Append(history.regime, fv.mid), HistoryMax)
              regime == [ price_regime |-> ClassifyPriceRegime(rh),
                          flow_regime |-> ClassifyFlowRegime(fv, oad, vad) ]
              sh == LastN(Append(history.signal, fv.mid), HistoryMax)
              candidate == Generate(sh, fv, regime, DefaultPolicy)
              account == GetAccountState(adapter)
              risk == Assess(guardian, candidate, fv, vad, stress, account,
                             DefaultPolicy)
              plan == Plan(risk, candidate, fv, vad)
          IN  /\ history' = [ regime |-> rh, signal |-> sh ]
              /\ decision' = risk
              /\ tick' = [tick EXCEPT !.fv = fv, !.oad = oad, !.vad = vad,
                                      !.stress = stress,
                                      !.flow_regime = regime.flow_regime,
                                      !.candidate = candidate, !.plan = plan,
                                      !.action = risk.action]
    /\ pc' = "execute"
    /\ UNCHANGED <<now, bookVars, guardian, assessCall, running, paused, feed,
                   adapter, positions, ledger, stats>>
    /\ UNCHANGED unitVars

\* app.py:221-238: execute the entry orders, record a trade per fill, open
\* the position.
EnterPosition ==
    /\ pc = "execute"
    /\ IF decision.action \in {"ALLOW", "ALLOW_WITH_REDUCTIONS"}
          /\ tick.plan.orders # << >>
       THEN \E slips \in [DOMAIN tick.plan.orders -> SlipArgs], fail \in FailArgs :
              LET r == Execute(adapter, tick.plan.orders, slips, fail)
              IN  /\ adapter' = r.adapter
                  /\ IF r.outcome = "ok"
                     THEN /\ guardian' = RecordTrades(guardian, tick.ts, Len(r.fills))
                          /\ positions' =
                               IF r.fills # << >> /\ tick.candidate # NoCandidate
                               THEN Append(positions,
                                      OpenPosition(tick.candidate, r.fills,
                                                   decision.size_usd, tick.ts))
                               ELSE positions
                          /\ tick' = [tick EXCEPT !.fills = r.fills]
                          /\ pc' = "monitor"
                          /\ UNCHANGED <<decision, running, stats>>
                     ELSE LET x == RaisedInTick(r.outcome)
                          IN  /\ pc' = x.pc
                              /\ running' = x.running
                              /\ tick' = TickSummary(tick, x.end)
                              /\ stats' = [stats EXCEPT !.aborted = @ + 1]
                              /\ decision' = NoDecision
                              /\ UNCHANGED <<guardian, positions>>
       ELSE /\ pc' = "monitor"
            /\ UNCHANGED <<guardian, decision, adapter, positions, tick, running,
                           stats>>
    /\ UNCHANGED <<now, bookVars, assessCall, paused, feed, history, ledger>>
    /\ UNCHANGED unitVars

\* app.py:242-288: the position monitor and the closes it asks for.
ClosePositions ==
    /\ pc = "monitor"
    /\ LET due == CheckPositions(positions, tick.fv.mid, tick.ts)
       IN  \E slips \in [DOMAIN due -> SlipArgs], fail \in FailArgs :
              LET r == CloseDue(adapter, positions, guardian, due, slips, fail,
                                tick.fv.mid, tick.ts)
              IN  /\ adapter' = r.adapter
                  /\ positions' = r.positions
                  /\ guardian' = r.guardian
                  /\ IF r.outcome = "ok"
                     THEN /\ pc' = "ledger1"
                          /\ tick' = [tick EXCEPT !.closes = r.closes]
                          /\ UNCHANGED <<decision, running, stats>>
                     ELSE LET x == RaisedInTick(r.outcome)
                          IN  /\ pc' = x.pc
                              /\ running' = x.running
                              /\ tick' = TickSummary(tick, x.end)
                              /\ stats' = [stats EXCEPT !.aborted = @ + 1]
                              /\ decision' = NoDecision
    /\ UNCHANGED <<now, bookVars, assessCall, paused, feed, history, ledger>>
    /\ UNCHANGED unitVars

\* app.py:309: self._ledger.append(record)
LedgerAppendFirst ==
    /\ pc = "ledger1"
    /\ ledger' = LedgerAppend(ledger, LedgerRecord)
    /\ tick' = [tick EXCEPT !.appended = @ + Len(ledger'.records) - Len(ledger.records)]
    /\ stats' = [stats EXCEPT !.appended_after_close = @ \/ ledger.closed]
    /\ pc' = "ledger2"
    /\ UNCHANGED <<now, bookVars, guardVars, running, paused, feed, history,
                   adapter, positions>>
    /\ UNCHANGED unitVars

\* app.py:310-349: self._ledger.append(record) once more, the publishes, the
\* tick log line; _tick returns.
LedgerAppendSecond ==
    /\ pc = "ledger2"
    /\ ledger' = LedgerAppend(ledger, LedgerRecord)
    /\ tick' = TickSummary(
                 [tick EXCEPT !.appended = @ + Len(ledger'.records) - Len(ledger.records)],
                 "returned")
    /\ stats' = [stats EXCEPT !.appended_after_close = @ \/ ledger.closed,
                              !.completed = @ + 1]
    /\ decision' = NoDecision
    /\ pc' = "sleep"
    /\ UNCHANGED <<now, bookVars, guardian, assessCall, running, paused, feed,
                   history, adapter, positions>>
    /\ UNCHANGED unitVars

\* app.py:134-137: time.sleep(max(0, 1.0 - elapsed))
Sleep ==
    /\ pc = "sleep"
    /\ now < MaxNow
    /\ now' = now + 1
    /\ pc' = "loop"
    /\ UNCHANGED <<bookVars, guardVars, running, paused, feed, history, adapter,
                   positions, ledger, tick, stats>>
    /\ UNCHANGED unitVars

\* app.py:145-146 and 353-360: finally: self._shutdown(), then the re-raise
\* if run is ending on an exception.
Shutdown ==
    /\ pc \in {"finally", "finally_raise"}
    /\ ledger' = [ledger EXCEPT !.closed = TRUE]
    /\ pc' = IF pc = "finally" THEN "done" ELSE "crashed"
    /\ UNCHANGED <<now, bookVars, guardVars, running, paused, feed, history,
                   adapter, positions, tick, stats>>
    /\ UNCHANGED unitVars

\* Ctrl-C: KeyboardInterrupt is raised in the main thread wherever it is
\* inside the try of run.
KeyboardInterrupt ==
    /\ pc \in TryPcs
    /\ stats.commands < MaxCommands
    /\ IF pc \in TickPcs
       THEN LET x == RaisedInTick("KeyboardInterrupt")
            IN  /\ pc' = x.pc
                /\ running' = x.running
                /\ tick' = TickSummary(tick, x.end)
                /\ stats' = [stats EXCEPT !.kbd_at = pc, !.commands = @ + 1,
                                          !.cancelled = @ + (IF x.end = "cancelled" THEN 1 ELSE 0),
                                          !.aborted = @ + (IF x.end = "exception" THEN 1 ELSE 0)]
       ELSE /\ pc' = IF RunHandler("KeyboardInterrupt") = "stop"
                     THEN "finally" ELSE "finally_raise"
            /\ running' = IF RunHandler("KeyboardInterrupt") = "stop"
                          THEN FALSE ELSE running
            /\ stats' = [stats EXCEPT !.kbd_at = pc, !.commands = @ + 1]
            /\ UNCHANGED tick
    /\ decision' = NoDecision
    /\ UNCHANGED <<now, bookVars, guardian, assessCall, paused, feed, history,
                   adapter, positions, ledger>>
    /\ UNCHANGED unitVars

\* ui/cli.py:78-104, on the CLI thread: /pause, /resume, /quit.
CliPause ==
    /\ Alive /\ ~paused
    /\ stats.commands < MaxCommands
    /\ paused' = TRUE
    /\ stats' = [stats EXCEPT !.commands = @ + 1]
    /\ UNCHANGED <<now, bookVars, guardVars, running, pc, feed, history, adapter,
                   positions, ledger, tick>>
    /\ UNCHANGED unitVars

CliResume ==
    /\ Alive /\ paused
    /\ stats.commands < MaxCommands
    /\ paused' = FALSE
    /\ stats' = [stats EXCEPT !.commands = @ + 1]
    /\ UNCHANGED <<now, bookVars, guardVars, running, pc, feed, history, adapter,
                   positions, ledger, tick>>
    /\ UNCHANGED unitVars

CliQuit ==
    /\ Alive /\ running
    /\ stats.commands < MaxCommands
    /\ running' = FALSE
    /\ stats' = [stats EXCEPT !.commands = @ + 1]
    /\ UNCHANGED <<now, bookVars, guardVars, paused, pc, feed, history, adapter,
                   positions, ledger, tick>>
    /\ UNCHANGED unitVars

\* collector_real.py:126-162, on the collector thread: a depth update
\* replaces the stored snapshot, stamped with the time of receipt.  Only
\* Fetch reads the snapshot, so the update is placed between two iterations.
FeedUpdateUpTo(n, snaps) ==
    /\ pc = "loop"
    /\ feed.seq < n
    /\ \E snap \in snaps :
          feed' = [ has |-> TRUE, bids |-> snap.bids, asks |-> snap.asks,
                    seq |-> feed.seq + 1, ts |-> now ]
    /\ UNCHANGED <<now, bookVars, guardVars, running, paused, pc, history,
                   adapter, positions, ledger, tick, stats>>
    /\ UNCHANGED unitVars

FeedUpdate == FeedUpdateUpTo(MaxFeedUpdates, FeedArgs)

Decide == DecideOn(MarketArgs)

Init ==
    /\ now = 0
    /\ book = BookInit
    /\ bookCall = NoBookCall
    /\ bookPrev = BookInit
    /\ guardian = GuardianInit(now)
    /\ assessCall = NoAssessCall
    /\ decision = NoDecision
    /\ OrchInit
    /\ UnitInit

Next ==
    \/ Loop
    \/ Iter
    \/ Fetch
    \/ Decide
    \/ EnterPosition
    \/ ClosePositions
    \/ LedgerAppendFirst
    \/ LedgerAppendSecond
    \/ Sleep
    \/ Shutdown
    \/ KeyboardInterrupt
    \/ CliPause
    \/ CliResume
    \/ CliQuit
    \/ FeedUpdate

Spec == Init /\ [][Next]_vars

(***************************************************************************)
(* The Orchestrator left to run: no CLI command and no Ctrl-C, and a       *)
(* market that moves once more, so that a position is opened and the       *)
(* monitor closes it.                                                      *)
(***************************************************************************)
MaxMarketMoves == 3   \* depth updates the collector receives

\* The books of FeedArgs, one around mid 1.0020 and one around mid 1.0025,
\* where the impact of a sell is above 20 bps.
MarketMoveArgs == FeedArgs \cup { SnapshotAt(10020), SnapshotAt(10025) }

MarketMove == FeedUpdateUpTo(MaxMarketMoves, MarketMoveArgs)

\* The inputs of MarketArgs, a toxic value at toxic_danger and an order
\* book detector at DANGER.
TradingMarketArgs ==
    MarketArgs \cup
    { [ toxic |-> 75, vol_z |-> 0, max_trade_z |-> 0, oad_level |-> "OK" ],
      [ toxic |-> 10, vol_z |-> 0, max_trade_z |-> 0, oad_level |-> "DANGER" ] }

DecideTrading == DecideOn(TradingMarketArgs)

NextTrading ==
    \/ Loop
    \/ Iter
    \/ Fetch
    \/ DecideTrading
    \/ EnterPosition
    \/ ClosePositions
    \/ LedgerAppendFirst
    \/ LedgerAppendSecond
    \/ Sleep
    \/ MarketMove

SpecTrading == Init /\ [][NextTrading]_vars

\* The pnl of a position of the given side, entry price and size that is
\* closed at close_price.
RealizedPnl(p, close_price) ==
    IF p.side = "long" THEN ((close_price - p.entry_price) * p.size) \div 1000
    ELSE ((p.entry_price - close_price) * p.size) \div 1000

\* C24: the realized pnl of a position the monitor closed is
\* (close_price - entry_price) * size for a long and
\* (entry_price - close_price) * size for a short, and that amount is what
\* the Orchestrator adds to the tilt tracker's daily PnL.
C24_RealizedPnl ==
    \A i \in DOMAIN tick.closes :
        LET c == tick.closes[i]
        IN  /\ c.closed.pnl = RealizedPnl(c.position, c.closed.close_price)
            /\ c.recorded_pnl = RealizedPnl(c.position, c.closed.close_price)

\* C25: a close order of the monitor moves the adapter's signed
\* position_size toward zero: closing a long decreases it, closing a short
\* increases it.
C25_CloseMovesTowardZero ==
    \A i \in DOMAIN tick.closes :
        LET c == tick.closes[i]
        IN  IF c.position.side = "long" THEN c.size_after < c.size_before
            ELSE c.size_after > c.size_before

\* C27: every Fill the adapter returned during a tick, for an entry order or
\* for a close order, is in the fills list of the tick's LedgerRecord.
C27_LedgerHoldsEveryFill ==
    (pc = "ledger2" /\ tick.appended = 1) =>
        LET record == ledger.records[Len(ledger.records)]
            held == { record.fills[j] : j \in DOMAIN record.fills }
        IN  /\ \A j \in DOMAIN tick.fills : tick.fills[j] \in held
            /\ \A i \in DOMAIN tick.closes :
                  \A j \in DOMAIN tick.closes[i].close_fills :
                      tick.closes[i].close_fills[j] \in held

\* C30: in a tick in which the signal engine emits a candidate the VAD toxic
\* value is below 0.6, max(impact_buy_bps, impact_sell_bps) is at most 20
\* and OAD.level is not DANGER; with the default thresholds no tick gives
\* the reasons IMPACT_HARD_CAP_EXCEEDED, TOXIC_DANGER_LEVEL or
\* TOXIC_WARN_LEVEL, and no tick plans an entry in taker mode.
C30_CandidateOnlyInCleanFlow ==
    /\ tick.candidate # NoCandidate =>
          /\ tick.vad.toxic < FlowToxic
          /\ Max(tick.fv.impact_buy_bps, tick.fv.impact_sell_bps) <= FlowImpact
          /\ tick.oad.level # "DANGER"
    /\ \A i \in DOMAIN decision.reasons :
          decision.reasons[i] \notin { IMPACT_HARD_CAP_EXCEEDED, TOXIC_DANGER_LEVEL,
                                       TOXIC_WARN_LEVEL }
    /\ tick.plan.mode # "taker"

\* A candidate in a tick whose toxic value is 0.5 and whose sell impact is 14.
C30_Witness ==
    /\ pc = "execute"
    /\ tick.candidate # NoCandidate
    /\ tick.vad.toxic = 50
    /\ Max(tick.fv.impact_buy_bps, tick.fv.impact_sell_bps) = 14
    /\ decision.action \in {"ALLOW", "ALLOW_WITH_REDUCTIONS"}

\* C29: after any sequence of ticks, the trades the tilt tracker holds with
\* timestamps inside any window of 3600 seconds are never more than
\* policy.max_trades_per_hour.
C29_TradesPerHourBounded ==
    LET trades == guardian.tilt.trades
    IN  \A i \in DOMAIN trades :
            Cardinality({ j \in DOMAIN trades :
                            /\ trades[j].ts >= trades[i].ts
                            /\ trades[j].ts < trades[i].ts + HourSec })
                <= DefaultPolicy.max_trades_per_hour

Allowed == {"ALLOW", "ALLOW_WITH_REDUCTIONS"}

OrderSizes(orders) == SumSeq([ i \in DOMAIN orders |-> orders[i].size_usd ])

\* C28: the adapter is asked to execute entry orders only in a tick whose
\* risk action is ALLOW or ALLOW_WITH_REDUCTIONS, and the size_usd of the
\* orders it is then given sum to risk.size_usd, each of them filled when
\* execute returns; in a DENY tick the entry step leaves the adapter alone.
C28_EntryOnlyWhenAllowed ==
    [][ pc = "execute" =>
          LET asked == adapter' # adapter \/ tick'.fills # << >>
          IN  /\ asked => decision.action \in Allowed
              /\ asked => OrderSizes(tick.plan.orders) = decision.size_usd
              /\ (asked /\ pc' = "monitor")
                    => Len(tick'.fills) = Len(tick.plan.orders)
              /\ decision.action = "DENY"
                    => (adapter' = adapter /\ positions' = positions) ]_vars

\* An entry in five slices has just been executed.
C28_Witness ==
    /\ pc = "monitor"
    /\ decision.action = "ALLOW_WITH_REDUCTIONS"
    /\ tick.plan.mode = "slicing"
    /\ Len(tick.fills) = NumSlices
    /\ adapter.position_size # 0

(***************************************************************************)
(* RiskGuardian on its own: any caller, any arguments                      *)
(***************************************************************************)

\* The arguments the guardian is exercised with.
CandidateArgs ==
    { NoCandidate,
      [ side |-> "long", entry_price |-> 20000, stop_price |-> 19960,
        tp_price |-> 20032, confidence |-> 60, strategy |-> "range_mean_revert",
        ttl_sec |-> 600 ],
      [ side |-> "short", entry_price |-> 20040, stop_price |-> 20080,
        tp_price |-> 20008, confidence |-> 60, strategy |-> "range_mean_revert",
        ttl_sec |-> 600 ] }
FvArgs ==
    { [ ts |-> now, spread |-> s, mid |-> 20000, impact_buy_bps |-> imp[1],
        impact_sell_bps |-> imp[2], toxic |-> 0 ] :
      s \in {0, 1}, imp \in {<<5, 25>>, <<15, 5>>, <<25, 5>>} }
VadArgs == { [toxic |-> t] : t \in {10, 60, 75} }
StressArgs == { [level |-> l] : l \in {"OK", "WARN", "DANGER"} }
AccountArgs ==
    { [balance |-> 10000, position_notional |-> n] : n \in {0, 2500, 3000} }
PolicyArgs == { DefaultPolicy, [DefaultPolicy EXCEPT !.max_trades_per_hour = 2] }
PnlArgs == {-100, -1}
CooldownArgs == {DataStaleThreshold}
ClockArgs == {1, DataStaleThreshold + 1, DataStaleThreshold + 2}

MakeAssessCall(g, candidate, fv, vad, stress, account, policy) ==
    [ made |-> TRUE, g |-> g, candidate |-> candidate, fv |-> fv, vad |-> vad,
      stress |-> stress, account |-> account, policy |-> policy ]

InitGuardian ==
    /\ now = 0
    /\ book = BookInit
    /\ bookCall = NoBookCall
    /\ bookPrev = BookInit
    /\ guardian = GuardianInit(now)
    /\ assessCall = NoAssessCall
    /\ decision = NoDecision
    /\ OrchInit
    /\ UnitInit

\* Nothing is in flight between an assess call and its return.
GIdle == ~assessCall.made

GClock ==
    /\ GIdle
    /\ \E t \in ClockArgs : t > now /\ now' = t
    /\ UNCHANGED <<bookVars, guardVars, orchVars>>
    /\ UNCHANGED unitVars

GAssess ==
    /\ GIdle
    /\ \E candidate \in CandidateArgs, fv \in FvArgs, vad \in VadArgs,
          stress \in StressArgs, account \in AccountArgs, policy \in PolicyArgs :
          /\ assessCall' = MakeAssessCall(guardian, candidate, fv, vad, stress,
                                          account, policy)
          /\ decision' = Assess(guardian, candidate, fv, vad, stress, account, policy)
    /\ UNCHANGED <<now, bookVars, guardian, orchVars>>
    /\ UNCHANGED unitVars

\* The caller has consumed the decision.
GReturn ==
    /\ assessCall.made
    /\ assessCall' = NoAssessCall
    /\ decision' = NoDecision
    /\ UNCHANGED <<now, bookVars, guardian, orchVars>>
    /\ UNCHANGED unitVars

GUpdateBookTimestamp ==
    /\ GIdle
    /\ guardian' = UpdateBookTimestamp(guardian, now)
    /\ guardian' # guardian
    /\ UNCHANGED <<now, bookVars, assessCall, decision, orchVars>>
    /\ UNCHANGED unitVars

GRecordTrade ==
    /\ GIdle
    /\ Len(guardian.tilt.trades) < MaxTrades
    /\ \E pnl \in PnlArgs : guardian' = RecordTrade(guardian, now, pnl)
    /\ UNCHANGED <<now, bookVars, assessCall, decision, orchVars>>
    /\ UNCHANGED unitVars

GTriggerCooldown ==
    /\ GIdle
    /\ \E d \in CooldownArgs : guardian' = TriggerCooldown(guardian, d)
    /\ guardian' # guardian
    /\ UNCHANGED <<now, bookVars, assessCall, decision, orchVars>>
    /\ UNCHANGED unitVars

NextGuardian ==
    \/ GClock
    \/ GAssess
    \/ GReturn
    \/ GUpdateBookTimestamp
    \/ GRecordTrade
    \/ GTriggerCooldown

SpecGuardian == InitGuardian /\ [][NextGuardian]_vars

(***************************************************************************)
(* Properties of RiskGuardian.assess                                       *)
(***************************************************************************)
RuleCodes ==
    << NO_SIGNAL, DATA_STALE, DATA_INCONSISTENT, DAILY_LOSS_EXCEEDED,
       COOLDOWN_ACTIVE, POSITION_LIMIT_EXCEEDED, IMPACT_HARD_CAP_EXCEEDED,
       TOXIC_DANGER_LEVEL, MARKET_STRESS_DANGER, TRADE_FREQUENCY_EXCEEDED >>

\* The ten DENY conditions on the arguments of a call, stated one by one.
RuleHolds(c) ==
    LET ts == c.fv.ts
    IN  << c.candidate = NoCandidate,
           ts - c.g.last_book_update_ts > DataStaleThreshold,
           c.fv.spread <= 0,
           /\ c.account.balance > 0
           /\ c.g.tilt.daily_pnl * 100 < -(c.policy.max_daily_loss_pct * c.account.balance),
           c.g.cooldown_until # 0 /\ ts < c.g.cooldown_until,
           c.account.position_notional >= c.policy.max_position_notional,
           (IF c.candidate.side = "long" THEN c.fv.impact_buy_bps
            ELSE c.fv.impact_sell_bps) > c.policy.impact_hard_cap_bps,
           c.vad.toxic >= Config.vad.toxic_danger,
           c.stress.level = "DANGER",
           Cardinality({ i \in DOMAIN c.g.tilt.trades :
                           c.g.tilt.trades[i].ts >= ts - HourSec })
               >= c.policy.max_trades_per_hour >>

RulesHit(c) == { i \in DOMAIN RuleCodes : RuleHolds(c)[i] }

\* C1: assess evaluates the DENY rules in the order NO_SIGNAL, DATA_STALE,
\* DATA_INCONSISTENT, DAILY_LOSS_EXCEEDED, COOLDOWN_ACTIVE,
\* POSITION_LIMIT_EXCEEDED, IMPACT_HARD_CAP_EXCEEDED, TOXIC_DANGER_LEVEL,
\* MARKET_STRESS_DANGER, TRADE_FREQUENCY_EXCEEDED; the action is DENY exactly
\* when some rule holds, and then reasons is the single code of the first
\* rule that holds.
C1_RuleOrder ==
    assessCall.made =>
        /\ (decision.action = "DENY") <=> (RulesHit(assessCall) # {})
        /\ RulesHit(assessCall) # {} =>
               decision.reasons = << RuleCodes[SetMin(RulesHit(assessCall))] >>

\* A call where the daily-loss, cooldown and trade-frequency rules all hold
\* and the decision names the daily loss.
C1_Witness ==
    /\ assessCall.made
    /\ {4, 5, 10} \subseteq RulesHit(assessCall)
    /\ SetMin(RulesHit(assessCall)) = 4
    /\ DailyPnlPct(assessCall.g.tilt, assessCall.account.balance) = -101
    /\ decision.action = "DENY"
    /\ decision.reasons = <<DAILY_LOSS_EXCEEDED>>

\* C2: the action is one of ALLOW, ALLOW_WITH_REDUCTIONS, DENY; a DENY has
\* size_usd 0; an ALLOW_WITH_REDUCTIONS lists RISK_POSITION_SIZE_REDUCED.
C2_DecisionShape ==
    assessCall.made =>
        /\ decision.action \in {"ALLOW", "ALLOW_WITH_REDUCTIONS", "DENY"}
        /\ decision.action = "DENY" => decision.size_usd = 0
        /\ decision.action = "ALLOW_WITH_REDUCTIONS" =>
               \E i \in DOMAIN decision.reasons :
                   decision.reasons[i] = RISK_POSITION_SIZE_REDUCED

\* A reduced decision: toxic at the warn level and stress WARN, size 0.35 of base.
C2_Witness ==
    /\ assessCall.made
    /\ decision.action = "ALLOW_WITH_REDUCTIONS"
    /\ decision.reasons = <<TOXIC_WARN_LEVEL, RISK_POSITION_SIZE_REDUCED>>
    /\ decision.size_usd = 350000

(***************************************************************************)
(* OrderBook on its own: any caller, any arguments                         *)
(***************************************************************************)
MaxLevels == 2      \* levels per side of a snapshot, changes per delta

SeqsUpTo(S, n) == UNION { [1..k -> S] : k \in 0..n }

BookArgPrices == {9995, 10005}
LevelArgs == { [price |-> p, size |-> 1] : p \in BookArgPrices }
ChangeArgs == { [side |-> sd, price |-> p, size |-> sz] :
                sd \in {"bid", "ask"}, p \in BookArgPrices, sz \in {0, 1} }
SnapshotSeqArgs == {1, 3}

InitBook ==
    /\ now = 0
    /\ book = BookInit
    /\ bookCall = NoBookCall
    /\ bookPrev = BookInit
    /\ guardian = GuardianInit(now)
    /\ assessCall = NoAssessCall
    /\ decision = NoDecision
    /\ OrchInit
    /\ UnitInit

BApplySnapshot ==
    /\ bookCall.n < MaxBookCalls
    /\ \E bids \in SeqsUpTo(LevelArgs, MaxLevels), asks \in SeqsUpTo(LevelArgs, MaxLevels),
          seq \in SnapshotSeqArgs :
          LET r == ApplySnapshot(book, bids, asks, seq)
          IN  /\ book' = r.book
              /\ bookCall' = [ n |-> bookCall.n + 1, op |-> "apply_snapshot",
                               bids |-> bids, asks |-> asks, changes |-> << >>,
                               seq |-> seq, outcome |-> r.outcome ]
    /\ bookPrev' = book
    /\ UNCHANGED <<now, guardVars, orchVars>>
    /\ UNCHANGED unitVars

BApplyDelta ==
    /\ bookCall.n < MaxBookCalls
    /\ \E changes \in SeqsUpTo(ChangeArgs, MaxLevels),
          seq \in {book.seq, book.seq + 1, book.seq + 2} :
          LET r == ApplyDelta(book, changes, seq)
          IN  /\ book' = r.book
              /\ bookCall' = [ n |-> bookCall.n + 1, op |-> "apply_delta",
                               bids |-> << >>, asks |-> << >>, changes |-> changes,
                               seq |-> seq, outcome |-> r.outcome ]
    /\ bookPrev' = book
    /\ UNCHANGED <<now, guardVars, orchVars>>
    /\ UNCHANGED unitVars

NextBook ==
    \/ BApplySnapshot
    \/ BApplyDelta

SpecBook == InitBook /\ [][NextBook]_vars

(***************************************************************************)
(* Properties of OrderBook                                                 *)
(***************************************************************************)
Raised == bookCall.outcome \in {"SequenceError", "OrderbookInconsistentError"}

\* C4: apply_delta is all-or-nothing: when it raises SequenceError or
\* OrderbookInconsistentError the bids, the asks and the stored sequence
\* number are what they were before the call.
C4_DeltaAllOrNothing ==
    (bookCall.op = "apply_delta" /\ Raised) =>
        /\ book.bids = bookPrev.bids
        /\ book.asks = bookPrev.asks
        /\ book.seq = bookPrev.seq

\* C5: apply_delta raises SequenceError whenever its seq is not the stored
\* sequence number plus one (the stored number again and a gap of two
\* included); when it returns normally the stored number is the old one plus 1.
C5_DeltaSequence ==
    bookCall.op = "apply_delta" =>
        /\ bookCall.seq # bookPrev.seq + 1 => bookCall.outcome = "SequenceError"
        /\ bookCall.outcome = "ok" => book.seq = bookPrev.seq + 1

\* A delta that skipped one sequence number on a loaded book and was refused.
C5_Witness ==
    /\ bookCall.op = "apply_delta"
    /\ bookPrev.seq = 3
    /\ bookCall.seq = 5
    /\ bookCall.changes # << >>
    /\ bookCall.outcome = "SequenceError"

PricesOf(levels) == { levels[i].price : i \in DOMAIN levels }

C14_SeqNeverDecreases ==
    (bookCall.op \in {"apply_snapshot", "apply_delta"} /\ bookCall.outcome = "ok")
        => book.seq >= bookPrev.seq

\* C23: after any sequence of apply_snapshot and apply_delta calls, the
\* rejected ones included, the book is consistent: one side is empty or
\* the best ask is strictly above the best bid.
C23_BookAlwaysConsistent ==
    bookCall.op \in {"apply_snapshot", "apply_delta"} => IsConsistent(book)

(***************************************************************************)
(* Properties of the Orchestrator                                          *)
(***************************************************************************)
BetweenTicks == pc \notin TickPcs

\* C3: the ledger holds exactly one record per tick: after n ticks that
\* obtained market data and ran to the end, exactly n records have been
\* appended (read between ticks, in runs where no tick was cut short).
C3_OneRecordPerTick ==
    (BetweenTicks /\ stats.cancelled = 0) =>
        Len(ledger.records) = stats.completed

StaleTick ==
    /\ pc \in {"execute", "monitor", "ledger1", "ledger2"}
    /\ tick.candidate # NoCandidate
    /\ tick.ts - tick.snap_ts > DataStaleThreshold

\* C8: in a tick in which a candidate is assessed and the collector has
\* handed out the same snapshot for more than 10 seconds, the risk decision
\* is DENY with reason DATA_STALE.
C8_StaleBookDenied ==
    StaleTick => /\ decision.action = "DENY"
                 /\ decision.reasons = <<DATA_STALE>>

\* C9: no exception raised by a component during a tick leaves _tick: run
\* never ends on an exception, and the step in which a tick ends on one
\* takes the loop to its sleep with the running flag as it was, from where
\* the loop condition is read again.
C9_TickExceptionsContained ==
    [][ /\ pc' \notin {"finally_raise", "crashed"}
        /\ tick'.end # "escaped"
        /\ (tick.end = "running" /\ tick'.end = "exception") =>
              (pc' = "sleep" /\ running' = running)
        /\ (pc = "sleep" /\ pc' \notin {"sleep", "finally"}) => pc' = "loop"
      ]_vars

\* After a tick ended on a component's exception, a later tick has fetched
\* its snapshot and goes on.
C9_Witness ==
    /\ stats.aborted >= 1
    /\ stats.cancelled = 0
    /\ pc = "decide"
    /\ tick.end = "running"
    /\ running

\* C10: a shutdown request never cancels a tick midway: no tick ends
\* cancelled, the ledger is closed only once the last tick has ended of
\* itself, and nothing is appended after the close.
C10_ShutdownWaitsForTick ==
    /\ tick.end # "cancelled"
    /\ stats.kbd_at \notin TickPcs
    /\ ledger.closed => tick.end \in {"none", "no_data", "exception", "returned"}
    /\ ~stats.appended_after_close

\* C11: while paused stays set and no tick is under way, the loop goes on
\* (iter -> sleep -> loop) without tick work: no tick starts, no risk
\* decision is produced, the account and the positions are untouched and
\* nothing is appended to the ledger; and with running cleared the loop
\* test leaves the loop for the shutdown.
C11_PausedDoesNoTickWork ==
    [][ /\ (paused /\ paused' /\ pc \notin TickPcs) =>
              /\ pc' \notin TickPcs
              /\ decision' = decision
              /\ adapter' = adapter
              /\ positions' = positions
              /\ ledger'.records = ledger.records
              /\ stats'.started = stats.started
        /\ (paused /\ pc = "iter" /\ pc' # pc) => pc' \in {"sleep", "finally"}
        /\ (paused /\ ~running /\ pc = "loop" /\ pc' # pc) => pc' = "finally"
      ]_vars

\* Paused for at least two iterations after a tick that ran to its end, the
\* loop is at its test again with nothing added to the ledger meanwhile.
C11_Witness ==
    /\ paused /\ running
    /\ pc = "loop"
    /\ tick.end = "returned"
    /\ now >= tick.ts + 3
    /\ Len(ledger.records) = 2 * stats.completed
    /\ stats.started = stats.completed

\* C13: of any two adjacent records of the ledger of one run, the later
\* one has the strictly greater timestamp.
C13_LedgerTimestampsIncrease ==
    \A i \in 1..(Len(ledger.records) - 1) :
        ledger.records[i + 1].ts > ledger.records[i].ts

\* C21: every string in the reasons of a RiskDecision or of an ExecutionPlan
\* the pipeline produces is one of the constants of reason_codes.py.
C21_ReasonsInClosedSet ==
    /\ \A i \in DOMAIN decision.reasons : decision.reasons[i] \in ReasonCodes
    /\ \A i \in DOMAIN tick.plan.reasons : tick.plan.reasons[i] \in ReasonCodes

(***************************************************************************)
(* The EventBus alone: subscribe, unsubscribe and publish in any order     *)
(***************************************************************************)
MaxSubscriptions == 3   \* length of the handler list of the topic
MaxPublishes == 2       \* publish calls that found a handler (_event_count)

\* What a handler does when it is called.
DoesArgs ==
    { [kind |-> "return", target |-> h] : h \in {"h1"} }
    \cup { [kind |-> "raise", target |-> h] : h \in {"h1"} }
    \cup { [kind |-> "unsubscribe", target |-> h] : h \in Handlers }

InitBus ==
    /\ now = 0
    /\ book = BookInit
    /\ bookCall = NoBookCall
    /\ bookPrev = BookInit
    /\ guardian = GuardianInit(now)
    /\ assessCall = NoAssessCall
    /\ decision = NoDecision
    /\ OrchInit
    /\ UnitInit

EBSubscribe ==
    /\ Len(bus.subscribers) < MaxSubscriptions
    /\ \E h \in Handlers : bus' = BusSubscribe(bus, h)
    /\ busCall' = NoBusCall
    /\ UNCHANGED <<now, bookVars, guardVars, orchVars, impactCall, signalCall,
                   planCall, tape, tapeCall,
                   vadCall, tradeBuffer>>

EBUnsubscribe ==
    /\ \E h \in Handlers : bus' = BusUnsubscribe(bus, h)
    /\ busCall' = NoBusCall
    /\ UNCHANGED <<now, bookVars, guardVars, orchVars, impactCall, signalCall,
                   planCall, tape, tapeCall,
                   vadCall, tradeBuffer>>

EBPublish ==
    /\ bus.event_count < MaxPublishes
    /\ \E does \in [Handlers -> DoesArgs] :
          LET r == Publish(bus, does)
          IN  /\ bus' = r.bus
              /\ busCall' = [ made |-> TRUE, before |-> bus.subscribers,
                              does |-> does, invoked |-> r.invoked,
                              ret |-> r.ret, outcome |-> r.outcome ]
    /\ UNCHANGED <<now, bookVars, guardVars, orchVars, impactCall, signalCall,
                   planCall, tape, tapeCall,
                   vadCall, tradeBuffer>>

NextBus ==
    \/ EBSubscribe
    \/ EBUnsubscribe
    \/ EBPublish

SpecBus == InitBus /\ [][NextBus]_vars

\* The handlers of the last publish that did not raise.
Completed ==
    { i \in DOMAIN busCall.before :
        busCall.does[busCall.before[i]].kind # "raise" }

\* Each handler of the last publish was subscribed once.
SubscribedOnce ==
    \A i, j \in DOMAIN busCall.before :
        busCall.before[i] = busCall.before[j] => i = j

\* C12: publish invokes every handler subscribed when it was called exactly
\* once, in subscription order, whatever the handlers do; it does not raise
\* and it returns the number of handlers that completed without exception.
C12_PublishReachesAll ==
    (busCall.made /\ SubscribedOnce) =>
        /\ busCall.invoked = busCall.before
        /\ busCall.outcome = "returned"
        /\ busCall.ret = Cardinality(Completed)


(***************************************************************************)
(* estimate_impact_bps alone: calls on sorted book sides around a mid      *)
(***************************************************************************)
ImpactMidArgs == {20000, 20050}         \* 2.0000 and 2.0050 USD
ImpactAskArgs == { [price |-> p, size |-> z] : p \in {20100, 20200}, z \in {250, 500} }
ImpactBidArgs == { [price |-> p, size |-> z] : p \in {19900, 19800}, z \in {250, 500} }
ImpactQtyArgs == {0, 50000, 100000, 150000}

\* asks in ascending, bids in descending order of price, as get_state lists them
ImpactLevelsArgs(side) ==
    IF side = "buy"
    THEN { q \in SeqsUpTo(ImpactAskArgs, MaxLevels) :
             \A i \in 1..(Len(q) - 1) : q[i].price < q[i + 1].price }
    ELSE { q \in SeqsUpTo(ImpactBidArgs, MaxLevels) :
             \A i \in 1..(Len(q) - 1) : q[i].price > q[i + 1].price }

InitImpact ==
    /\ now = 0
    /\ book = BookInit
    /\ bookCall = NoBookCall
    /\ bookPrev = BookInit
    /\ guardian = GuardianInit(now)
    /\ assessCall = NoAssessCall
    /\ decision = NoDecision
    /\ OrchInit
    /\ UnitInit

ImpactCall ==
    /\ \E side \in {"buy", "sell"}, qty_usd \in ImpactQtyArgs, mid \in ImpactMidArgs :
         \E levels \in ImpactLevelsArgs(side) :
            impactCall' = [ made |-> TRUE, levels |-> levels, side |-> side,
                            qty_usd |-> qty_usd, mid |-> mid,
                            ret |-> EstimateImpactBps(levels, side, qty_usd, mid) ]
    /\ UNCHANGED <<now, bookVars, guardVars, orchVars, bus, busCall, signalCall,
                   planCall, tape, tapeCall,
                   vadCall, tradeBuffer>>

NextImpact == ImpactCall

SpecImpact == InitImpact /\ [][NextImpact]_vars

\* The USD a list of levels can absorb, in cents.
RECURSIVE DepthUsd(_)
DepthUsd(levels) ==
    IF levels = << >> THEN 0
    ELSE (Head(levels).price * Head(levels).size) \div 100 + DepthUsd(Tail(levels))

\* The coins a fill of qty_usd takes from the levels, in 1e-2 coin.
RECURSIVE CoinsFilled(_, _)
CoinsFilled(levels, qty_usd) ==
    IF levels = << >> \/ qty_usd <= 0 THEN 0
    ELSE LET level_usd == (Head(levels).price * Head(levels).size) \div 100
             consumed_usd == Min(qty_usd, level_usd)
         IN  (consumed_usd * 10000) \div Head(levels).price
             + CoinsFilled(Tail(levels), qty_usd - consumed_usd)

\* The average price paid or received per coin, in 1e-4 USD.
AvgFillPrice(levels, qty_usd) == (qty_usd * 10000) \div CoinsFilled(levels, qty_usd)

\* C15: a call whose quantity the levels can fill returns the distance of the
\* average fill price from mid in basis points, 10000 (avg - mid) / mid for a
\* buy and 10000 (mid - avg) / mid for a sell, floored at 0 (here to within one
\* basis point of fixed-point rounding); a buy filled at the best ask a
\* returns 10000 (a - mid) / mid.
C15_ImpactIsAverageFillDistance ==
    LET c == impactCall
        avg == AvgFillPrice(c.levels, c.qty_usd)
        claimed == IF c.side = "buy"
                   THEN Max(0, ((avg - c.mid) * 10000) \div c.mid)
                   ELSE Max(0, ((c.mid - avg) * 10000) \div c.mid)
    IN  (c.made /\ c.qty_usd > 0 /\ DepthUsd(c.levels) >= c.qty_usd)
            => /\ Abs(c.ret - claimed) <= 1
               /\ (c.side = "buy" /\ DepthUsd(<<c.levels[1]>>) >= c.qty_usd)
                      => c.ret = ((c.levels[1].price - c.mid) * 10000) \div c.mid


(***************************************************************************)
(* SignalEngine alone: generate calls with any regime and any whitelist    *)
(***************************************************************************)
MaxGenerates == 6      \* generate calls, each of which records one mid
SignalMidArgs == {10000, 10020}
PriceRegimeArgs == {"TREND_UP", "TREND_DOWN", "RANGE"}
FlowRegimeArgs == {"CALM", "ACTIVE", "TOXIC"}
StrategyArgs == SUBSET {"trend_breakout", "range_mean_revert"}

InitSignal ==
    /\ now = 0
    /\ book = BookInit
    /\ bookCall = NoBookCall
    /\ bookPrev = BookInit
    /\ guardian = GuardianInit(now)
    /\ assessCall = NoAssessCall
    /\ decision = NoDecision
    /\ OrchInit
    /\ UnitInit

SGenerate ==
    /\ Len(history.signal) < MaxGenerates
    /\ \E mid \in SignalMidArgs, price_regime \in PriceRegimeArgs,
          flow_regime \in FlowRegimeArgs, allowed \in StrategyArgs :
         LET fv == [NoFv EXCEPT !.ts = now, !.mid = mid]
             regime == [ price_regime |-> price_regime, flow_regime |-> flow_regime ]
             policy == [DefaultPolicy EXCEPT !.allowed_strategies = allowed]
             sh == LastN(Append(history.signal, mid), HistoryMax)
         IN  /\ history' = [history EXCEPT !.signal = sh]
             /\ signalCall' = [ made |-> TRUE, before |-> history.signal,
                                mid |-> mid, price_regime |-> price_regime,
                                flow_regime |-> flow_regime,
                                allowed_strategies |-> allowed,
                                ret |-> Generate(sh, fv, regime, policy) ]
    /\ UNCHANGED <<now, bookVars, guardVars, running, paused, pc, feed, adapter,
                   positions, ledger, tick, stats, bus, busCall, impactCall,
                   planCall, tape, tapeCall,
                   vadCall, tradeBuffer>>

NextSignal == SGenerate

SpecSignal == InitSignal /\ [][NextSignal]_vars

\* C16: with trend_breakout allowed, a trending price regime, flow ACTIVE and
\* at least 5 mids recorded, a generate call whose mid is more than 1.001
\* times the highest of the (up to 20) mids recorded by the preceding calls
\* returns a long trend_breakout candidate: entry mid, stop 0.995 mid,
\* tp 1.01 mid, confidence 0.7, ttl 300 s.
C16_BreakoutAbovePrecedingHigh ==
    LET c == signalCall
    IN  ( /\ c.made
          /\ "trend_breakout" \in c.allowed_strategies
          /\ c.price_regime \in {"TREND_UP", "TREND_DOWN"}
          /\ c.flow_regime = "ACTIVE"
          /\ Len(c.before) + 1 >= SignalMinHistory
          /\ c.mid * 1000 > 1001 * SetMax(Range(LastN(c.before, BreakoutWindow))) )
        => c.ret = [ side |-> "long", entry_price |-> c.mid,
                     stop_price |-> (c.mid * 995) \div 1000,
                     tp_price |-> (c.mid * 101) \div 100,
                     confidence |-> 70, strategy |-> "trend_breakout",
                     ttl_sec |-> 300 ]

\* C17: generate returns no candidate when the flow regime is TOXIC, when
\* allowed_strategies is empty, or when fewer than 5 mids are recorded; the
\* strategy of a candidate it returns is a member of allowed_strategies.
C17_OnlyAllowedStrategiesFire ==
    LET c == signalCall
    IN  c.made =>
          /\ ( \/ c.flow_regime = "TOXIC"
               \/ c.allowed_strategies = {}
               \/ Len(history.signal) < SignalMinHistory ) => c.ret = NoCandidate
          /\ c.ret # NoCandidate => c.ret.strategy \in c.allowed_strategies

\* The fifth call returns a mean-reversion candidate under a whitelist that
\* names both strategies.
C17_Witness ==
    /\ signalCall.made
    /\ signalCall.allowed_strategies = {"trend_breakout", "range_mean_revert"}
    /\ signalCall.ret # NoCandidate
    /\ signalCall.ret.strategy = "range_mean_revert"
    /\ Len(history.signal) = SignalMinHistory


(***************************************************************************)
(* ExecutionPlanner alone: plan calls with any decision and any candidate  *)
(***************************************************************************)
RiskArgs ==
    { Deny(<<DATA_STALE>>, {"book_age_sec"}),
      Deny(<<NO_SIGNAL>>, {}),
      [ action |-> "ALLOW", size_usd |-> 1000000, max_slippage_bps |-> 75,
        reasons |-> << >>, facts |-> {} ],
      [ action |-> "ALLOW_WITH_REDUCTIONS", size_usd |-> 500000,
        max_slippage_bps |-> 150,
        reasons |-> <<IMPACT_ENTRY_CAP_EXCEEDED, RISK_POSITION_SIZE_REDUCED>>,
        facts |-> {} ] }

InitPlanner ==
    /\ now = 0
    /\ book = BookInit
    /\ bookCall = NoBookCall
    /\ bookPrev = BookInit
    /\ guardian = GuardianInit(now)
    /\ assessCall = NoAssessCall
    /\ decision = NoDecision
    /\ OrchInit
    /\ UnitInit

PPlan ==
    /\ \E risk \in RiskArgs, candidate \in CandidateArgs, fv \in FvArgs,
          vad \in VadArgs :
         planCall' = [ made |-> TRUE, risk |-> risk, candidate |-> candidate,
                       fv |-> fv, vad |-> vad,
                       plan |-> Plan(risk, candidate, fv, vad) ]
    /\ UNCHANGED <<now, bookVars, guardVars, orchVars, bus, busCall, impactCall,
                   signalCall, tape, tapeCall,
                   vadCall, tradeBuffer>>

NextPlanner == PPlan

SpecPlanner == InitPlanner /\ [][NextPlanner]_vars

\* C18: for every plan returned by ExecutionPlanner.plan, orders is empty
\* exactly when the mode is reduce_only, the mode is reduce_only exactly when
\* the risk action is DENY or there is no candidate, and for DENY the reasons
\* of the plan are the reasons of the risk decision.
C18_ReduceOnlyIffNothingToDo ==
    LET c == planCall
    IN  c.made =>
          /\ (c.plan.orders = << >>) <=> (c.plan.mode = "reduce_only")
          /\ (c.plan.mode = "reduce_only")
                <=> (c.risk.action = "DENY" \/ c.candidate = NoCandidate)
          /\ c.risk.action = "DENY" => c.plan.reasons = c.risk.reasons

\* A DENY for a candidate whose side has an impact above the slicing
\* threshold: the plan is reduce_only with the reasons of the decision.
C18_Witness ==
    /\ planCall.made
    /\ planCall.risk.action = "DENY"
    /\ planCall.candidate # NoCandidate
    /\ ImpactSide(planCall.candidate, planCall.fv)
         >= Config.execution.slicing_threshold_bps
    /\ planCall.plan = [ mode |-> "reduce_only", orders |-> << >>,
                         reasons |-> <<DATA_STALE>> ]


(***************************************************************************)
(* RiskGuardian across a change of calendar day                            *)
(***************************************************************************)
MaxDays == 2          \* calendar days the clock passes through
MaxDayOffset == 1     \* seconds the clock advances within a day

\* time.time() advances by a second within the day.
DClock ==
    /\ GIdle
    /\ now % DaySec < MaxDayOffset
    /\ now' = now + 1
    /\ UNCHANGED <<bookVars, guardVars, orchVars>>
    /\ UNCHANGED unitVars

\* time.time() passes midnight.
DMidnight ==
    /\ GIdle
    /\ DateOf(now) + 1 < MaxDays
    /\ now' = (DateOf(now) + 1) * DaySec
    /\ UNCHANGED <<bookVars, guardVars, orchVars>>
    /\ UNCHANGED unitVars

NextDay ==
    \/ DClock
    \/ DMidnight
    \/ GAssess
    \/ GReturn
    \/ GUpdateBookTimestamp
    \/ GRecordTrade

SpecDay == InitGuardian /\ [][NextDay]_vars

\* The PnL of the trades recorded on calendar day d.
PnlOn(trades, d) ==
    SumSeq([ i \in DOMAIN trades |->
               IF DateOf(trades[i].ts) = d THEN trades[i].pnl ELSE 0 ])

\* C19: at an assess call made on calendar day D the daily-loss check counts
\* only the PnL of the trades recorded on day D: a decision that names
\* DAILY_LOSS_EXCEEDED is made only when the trades of day D lost more than
\* max_daily_loss_pct of the balance.
C19_DailyLossCountsToday ==
    LET c == assessCall
        today == PnlOn(c.g.tilt.trades, DateOf(c.fv.ts))
    IN  (c.made /\ decision.reasons = <<DAILY_LOSS_EXCEEDED>>)
            => (today * 10000) \div c.account.balance
                  < 0 - c.policy.max_daily_loss_pct * 100


(***************************************************************************)
(* TradeTape alone: trades that arrive late or out of order                *)
(***************************************************************************)
MaxTapeTrades == 3    \* trades handed to add and add_batch (_total_trades)

\* The times at which the tape is called.
TapeClockArgs == {1, WindowSec + 1, WindowSec + 2}

\* The timestamps a trade can carry at time now: just made, a second old, or
\* older than the window.
TradeTsArgs == { t \in {now, now - 1, now - (WindowSec + 1)} : t >= 0 }

InitTape ==
    /\ now = 0
    /\ book = BookInit
    /\ bookCall = NoBookCall
    /\ bookPrev = BookInit
    /\ guardian = GuardianInit(now)
    /\ assessCall = NoAssessCall
    /\ decision = NoDecision
    /\ OrchInit
    /\ UnitInit

\* What len(tape) and tape.recent() give right after a call made at time now.
TapeCallAt(op, trades, t) ==
    [ op |-> op, now |-> now, trades |-> trades,
      recent |-> TapeRecent(t, now).ret, len |-> TapeLen(t, now).ret ]

TClock ==
    /\ \E t \in TapeClockArgs : t > now /\ now' = t
    /\ UNCHANGED <<bookVars, guardVars, orchVars, bus, busCall, impactCall,
                   signalCall, planCall, tape, tapeCall,
                   vadCall, tradeBuffer>>

TAdd ==
    /\ tape.total_trades < MaxTapeTrades
    /\ \E trade \in TradeTsArgs :
         /\ tape' = TapeAdd(tape, trade, now)
         /\ tapeCall' = TapeCallAt("add", <<trade>>, tape')
    /\ UNCHANGED <<now, bookVars, guardVars, orchVars, bus, busCall, impactCall,
                   signalCall, planCall, vadCall, tradeBuffer>>

TAddBatch ==
    /\ \E trades \in SeqsUpTo(TradeTsArgs, 2) :
         /\ tape.total_trades + Len(trades) <= MaxTapeTrades
         /\ tape' = TapeAddBatch(tape, trades, now)
         /\ tapeCall' = TapeCallAt("add_batch", trades, tape')
    /\ UNCHANGED <<now, bookVars, guardVars, orchVars, bus, busCall, impactCall,
                   signalCall, planCall, vadCall, tradeBuffer>>

TRecent ==
    /\ tape' = TapeRecent(tape, now).tape
    /\ tapeCall' = TapeCallAt("recent", << >>, tape')
    /\ UNCHANGED <<now, bookVars, guardVars, orchVars, bus, busCall, impactCall,
                   signalCall, planCall, vadCall, tradeBuffer>>

NextTape ==
    \/ TClock
    \/ TAdd
    \/ TAddBatch
    \/ TRecent

SpecTape == InitTape /\ [][NextTape]_vars

\* C20: after an add or add_batch call, whatever the order of the trade
\* timestamps, the tape retains (as len counts and recent() returns) no trade
\* older than the time of the call minus window_sec.
C20_NoTradeOlderThanWindow ==
    tapeCall.op \in {"add", "add_batch"} =>
        /\ \A i \in DOMAIN tapeCall.recent :
              tapeCall.recent[i] >= tapeCall.now - WindowSec
        /\ tapeCall.len
              = Cardinality({ i \in DOMAIN tape.trades :
                               tape.trades[i] >= tapeCall.now - WindowSec })


(***************************************************************************)
(* VolumeAnomalyDetector.detect alone: the toxicity of the feature vector  *)
(* and the two z-scores its rolling statistics give are the inputs.        *)
(***************************************************************************)
VadToxicArgs == {10, 39, 40, 59, 60, 65, 74, 75}
VadZArgs == {0, 4, 8, 12}

InitVad ==
    /\ now = 0
    /\ book = BookInit
    /\ bookCall = NoBookCall
    /\ bookPrev = BookInit
    /\ guardian = GuardianInit(now)
    /\ assessCall = NoAssessCall
    /\ decision = NoDecision
    /\ OrchInit
    /\ UnitInit

VDetect ==
    /\ \E toxic \in VadToxicArgs, vz \in VadZArgs, mz \in VadZArgs :
         vadCall' = [ made |-> TRUE, fv |-> [toxic |-> toxic], vol_z |-> vz,
                      max_trade_z |-> mz,
                      ret |-> VadDetect([toxic |-> toxic],
                                        [vol_z |-> vz, max_trade_z |-> mz]) ]
    /\ UNCHANGED <<now, bookVars, guardVars, orchVars, bus, busCall, impactCall,
                   signalCall, planCall, tape, tapeCall, tradeBuffer>>

NextVad == VDetect

SpecVad == InitVad /\ [][NextVad]_vars

\* C22: a feature vector whose toxic is at least toxic_warn and below
\* toxic_danger, with all z-scores zero, is reported at level WARN.
C22_ToxicWarnLevel ==
    ( /\ vadCall.made
      /\ vadCall.fv.toxic >= Config.vad.toxic_warn
      /\ vadCall.fv.toxic < Config.vad.toxic_danger
      /\ vadCall.vol_z = 0
      /\ vadCall.max_trade_z = 0 )
        => vadCall.ret.level = "WARN"


(***************************************************************************)
(* The trade intake of a tick: the collector thread appends the trades it  *)
(* receives to _trade_buffer, and each tick adds get_recent_trades(100) to *)
(* the tape.  A trade is its timestamp; the collector receives at most one *)
(* trade per second here, so that a timestamp names a trade.               *)
(***************************************************************************)
RecentTradesMax == 100   \* app.py:165 get_recent_trades(max_count=100)
MaxIntakeNow == 3        \* the clock of the intake runs

\* BinanceMarketCollector.get_recent_trades
GetRecentTrades(buffer, max_count) == LastN(buffer, max_count)

\* for trade in recent_trades: self._tape.add(trade)
RECURSIVE AddEach(_, _, _)
AddEach(t, trades, current_ts) ==
    IF trades = << >> THEN t
    ELSE AddEach(TapeAdd(t, Head(trades), current_ts), Tail(trades), current_ts)

\* How many times the tape holds the trade.
TimesOnTape(trade) == Cardinality({ i \in DOMAIN tape.trades : tape.trades[i] = trade })

InitIntake ==
    /\ now = 0
    /\ book = BookInit
    /\ bookCall = NoBookCall
    /\ bookPrev = BookInit
    /\ guardian = GuardianInit(now)
    /\ assessCall = NoAssessCall
    /\ decision = NoDecision
    /\ OrchInit
    /\ UnitInit

IClock ==
    /\ now < MaxIntakeNow
    /\ now' = now + 1
    /\ UNCHANGED <<bookVars, guardVars, orchVars, bus, busCall, impactCall,
                   signalCall, planCall, tape, tapeCall, vadCall, tradeBuffer>>

\* collector_real.py:164-184, on the collector thread
HandleTrade ==
    /\ \A i \in DOMAIN tradeBuffer : tradeBuffer[i] # now
    /\ tradeBuffer' = Append(tradeBuffer, now)
    /\ UNCHANGED <<now, bookVars, guardVars, orchVars, bus, busCall, impactCall,
                   signalCall, planCall, tape, tapeCall, vadCall>>

\* app.py:165-167, in the tick; the ticks are a second apart
TakeTradesIn ==
    /\ tapeCall.op = "none" \/ tapeCall.now < now
    /\ LET recent_trades == GetRecentTrades(tradeBuffer, RecentTradesMax)
       IN  /\ tape' = AddEach(tape, recent_trades, now)
           /\ tapeCall' = [ op |-> "intake", now |-> now, trades |-> recent_trades,
                            recent |-> << >>, len |-> Len(tape'.trades) ]
    /\ UNCHANGED <<now, bookVars, guardVars, orchVars, bus, busCall, impactCall,
                   signalCall, planCall, vadCall, tradeBuffer>>

NextIntake ==
    \/ IClock
    \/ HandleTrade
    \/ TakeTradesIn

SpecIntake == InitIntake /\ [][NextIntake]_vars

\* C26: across the ticks, each trade the collector delivered is added to
\* the tape at most once.
C26_TradeAddedOnce ==
    \A i \in DOMAIN tradeBuffer : TimesOnTape(tradeBuffer[i]) <= 1

=============================================================================
